---- MODULE Spec2Model ----
(***************************************************************************)
(* Job orchestration pipeline of content-marketing-team:                   *)
(*   app/api/routes_jobs.py      create_job, retry_job, cancel_job         *)
(*   app/workers/queue.py        JobQueue (single worker, FIFO)            *)
(*   app/services/orchestrator.py JobOrchestrator.process_job and helpers  *)
(*   app/services/agents.py      TextAgentService.generate_text_assets     *)
(*   app/domain/schemas.py       JobCreateRequest.validate_targets         *)
(* The job store is the variable jobs, the per-job output directory is     *)
(* disk, and the worker thread is pc/stage/cur with its local variables.   *)
(*                                                                         *)
(* Several specifications share the variables:                             *)
(*   Spec         the running application: API handlers and the one        *)
(*                worker that create_app starts, walking through           *)
(*                process_job;                                             *)
(*   DeleteSpec   Spec with job records being deleted;                     *)
(*   ConcSpec     Spec with retry_job calls running side by side;          *)
(*   QueueSpec    the JobQueue class by itself (start, stop, enqueue and   *)
(*                the threads running _run) with the processor as a call   *)
(*                that returns or raises;                                  *)
(*   NormSpec     the two target normalisation functions applied to        *)
(*                target lists;                                            *)
(*   ReviewSpec   _run_reviewer applied to output directories;             *)
(*   ProviderSpec one call of generate_assets of an image provider;        *)
(*   PathSpec     download_artifact applied to artifact paths;             *)
(*   TextSpec     one call of generate_text_assets with its tasks;         *)
(*   SingleSpec   _generate_single_text applied to provider behaviours;    *)
(*   BriefSpec    _resolve_brief_ai_variables applied to variable sets;    *)
(*   KeySpec      _extract_key_messages applied to candidate sentences.    *)
(* workers, jq and qlog belong to QueueSpec, norm to NormSpec, rev to      *)
(* ReviewSpec, prov to ProviderSpec, art to PathSpec, reqs to ConcSpec,    *)
(* text to TextSpec, single to SingleSpec, brief to BriefSpec and msgs to  *)
(* KeySpec; each specification leaves the variables of the others at      *)
(* their initial values.                                                   *)
(***************************************************************************)
EXTENDS Integers, Sequences, FiniteSets, TLC

VARIABLES jobs, queue, disk, pc, stage, cur, snap, eff, video,
          failures, warnings, resp, hist, workers, jq, qlog, norm, rev, prov, art, reqs,
          text, single, brief, msgs

vars == <<jobs, queue, disk, pc, stage, cur, snap, eff, video,
          failures, warnings, resp, hist, workers, jq, qlog, norm, rev, prov, art, reqs,
          text, single, brief, msgs>>

----------------------------------------------------------------------------
(* Bounds of the model *)

\* number of job ids that create_job can hand out
MaxJobs == 1

JobIds == 1..MaxJobs

\* number of threads that start can create in QueueSpec
MaxThreads == 3

\* number of enqueue calls in QueueSpec
MaxEnqueue == 3

\* number of different ids given to enqueue in QueueSpec
MaxQueueIds == 2

QueueIds == 1..MaxQueueIds

\* longest target list given to the normalisation functions in NormSpec
MaxTargets == 3

\* callbacks that start can be given
Processors == {"process_job", "other"}

----------------------------------------------------------------------------
(* Program constants *)

\* routes_jobs.py:109  if job.retry_count >= 1: reject
RetryLimit == 1

\* orchestrator.py:168  failures[:20]
ErrorLimit == 20

TERMINAL == {"SUCCEEDED", "FAILED", "PARTIAL_SUCCESS", "CANCELED"}

RETRYABLE == {"FAILED", "PARTIAL_SUCCESS"}

TEXT_TARGETS == {"newsletter", "blog", "linkedin", "threads",
                 "youtube-script", "shorts-scripts"}

\* the stage names with VISUAL persisted ahead of TEXT_AGENTS
Stages_swapped == <<"INGESTION", "PLANNER", "VISUAL", "TEXT_AGENTS", "CHART",
                    "SHORTS", "REVIEW">>

\* the stage names in the order process_job walks them
Stages == <<"INGESTION", "PLANNER", "TEXT_AGENTS", "VISUAL", "CHART",
            "SHORTS", "REVIEW">>

\* progress table in which CHART falls back behind VISUAL
StageProgress_chart_low ==
  [s \in {"QUEUED", "INGESTION", "PLANNER", "TEXT_AGENTS", "VISUAL",
          "CHART", "SHORTS", "REVIEW", "DONE"} |->
     CASE s = "QUEUED"      -> 0
       [] s = "INGESTION"   -> 5
       [] s = "PLANNER"     -> 20
       [] s = "TEXT_AGENTS" -> 40
       [] s = "VISUAL"      -> 60
       [] s = "CHART"       -> 52
       [] s = "SHORTS"      -> 82
       [] s = "REVIEW"      -> 92
       [] s = "DONE"        -> 100]

\* progress value persisted with each current_stage by process_job
StageProgress ==
  [s \in {"QUEUED", "INGESTION", "PLANNER", "TEXT_AGENTS", "VISUAL",
          "CHART", "SHORTS", "REVIEW", "DONE"} |->
     CASE s = "QUEUED"      -> 0
       [] s = "INGESTION"   -> 5
       [] s = "PLANNER"     -> 20
       [] s = "TEXT_AGENTS" -> 40
       [] s = "VISUAL"      -> 60
       [] s = "CHART"       -> 72
       [] s = "SHORTS"      -> 82
       [] s = "REVIEW"      -> 92
       [] s = "DONE"        -> 100]

----------------------------------------------------------------------------
(* Sequence helpers *)

Take(s, n) == SubSeq(s, 1, IF Len(s) < n THEN Len(s) ELSE n)

Range(s) == {s[i] : i \in 1..Len(s)}

Contains(s, x) == \E i \in 1..Len(s) : s[i] = x

\* list(dict.fromkeys(s)): drop later duplicates, keep first-occurrence order
RECURSIVE Dedup(_)
Dedup(s) ==
  IF s = <<>> THEN <<>>
  ELSE LET front == Dedup(SubSeq(s, 1, Len(s) - 1))
           last  == s[Len(s)]
       IN IF Contains(front, last) THEN front ELSE Append(front, last)

RECURSIVE Flatten(_)
Flatten(ss) ==
  IF ss = <<>> THEN <<>> ELSE Head(ss) \o Flatten(Tail(ss))

\* all orderings of the elements of a finite set
RECURSIVE Perms(_)
Perms(S) ==
  IF S = {} THEN {<<>>}
  ELSE UNION {{<<x>> \o p : p \in Perms(S \ {x})} : x \in S}

----------------------------------------------------------------------------
(* Targets *)

\* schemas.ALLOWED_TARGETS
ALLOWED_TARGETS ==
  {"newsletter", "blog", "linkedin", "threads", "youtube-script",
   "shorts-scripts", "card-news", "thumbnail", "chart", "shorts-videos",
   "visuals", "visual-card-news", "visual-thumbnail", "charts"}

\* target strings as they can arrive: the allowed names, three of them
\* written with capitals or blanks around them, the empty and the blank
\* string, and a name that is not allowed
RawTargets ==
  ALLOWED_TARGETS \cup {" Blog ", "VISUALS", "Charts ", "", "  ", "podcast"}

\* value.strip().lower() on RawTargets
strip_lower(v) ==
  CASE v = " Blog "  -> "blog"
    [] v = "VISUALS" -> "visuals"
    [] v = "Charts " -> "charts"
    [] v = "  "      -> ""
    [] OTHER         -> v

\* an expansion in which visuals stands for the card news only
ExpandAlias_cards_only(t) ==
  CASE t = "visuals"          -> <<"card-news">>
    [] t = "visual-card-news" -> <<"card-news">>
    [] t = "visual-thumbnail" -> <<"thumbnail">>
    [] t = "charts"           -> <<"chart">>
    [] OTHER                  -> <<t>>

\* one alias expansion step shared by validate_targets and _normalize_targets
ExpandAlias(t) ==
  CASE t = "visuals"          -> <<"card-news", "thumbnail">>
    [] t = "visual-card-news" -> <<"card-news">>
    [] t = "visual-thumbnail" -> <<"thumbnail">>
    [] t = "charts"           -> <<"chart">>
    [] OTHER                  -> <<t>>

\* orchestrator._normalize_targets: blank entries are skipped
_normalize_targets(targets) ==
  Dedup(Flatten([i \in 1..Len(targets) |->
                   LET normalized == strip_lower(targets[i])
                   IN IF normalized = "" THEN <<>> ELSE ExpandAlias(normalized)]))

\* schemas.py:50  the stripped, lower-cased, non-blank values
normalized_values(values) ==
  SelectSeq([i \in 1..Len(values) |-> strip_lower(values[i])],
            LAMBDA v : v # "")

\* schemas.py:53-64  the expanded list
expanded_values(values) ==
  LET normalized == normalized_values(values)
  IN Flatten([i \in 1..Len(normalized) |-> ExpandAlias(normalized[i])])

\* schemas.py:51-52 and 65-67  the two ValueErrors of validate_targets
targets_rejected(values) ==
  \/ normalized_values(values) = <<>>
  \/ \E t \in Range(expanded_values(values)) : t \notin ALLOWED_TARGETS

\* schemas.JobCreateRequest.validate_targets, the list it returns when it
\* does not raise
validate_targets(values) == Dedup(expanded_values(values))

\* target lists that requests carry in the model
TargetLists ==
  { <<"blog">>,
    <<"blog", "threads">>,
    <<"blog", "visuals", "thumbnail", "charts">>,
    <<"blog", "shorts-videos">> }

\* required paths that leave the chart files out
_required_paths_without_charts(targets) ==
  <<"brief.md">>
  \o (IF Contains(targets, "newsletter") THEN <<"newsletter.md">> ELSE <<>>)
  \o (IF Contains(targets, "blog") THEN <<"blog.md">> ELSE <<>>)
  \o (IF Contains(targets, "linkedin") THEN <<"linkedin.md">> ELSE <<>>)
  \o (IF Contains(targets, "youtube-script") THEN <<"youtube-script.md">> ELSE <<>>)
  \o (IF Contains(targets, "threads") THEN <<"threads/thread-01.md">> ELSE <<>>)
  \o (IF Contains(targets, "shorts-scripts") THEN <<"shorts-scripts/shorts-01.md">> ELSE <<>>)
  \o (IF Contains(targets, "thumbnail") THEN <<"visuals/thumbnail.png">> ELSE <<>>)
  \o (IF Contains(targets, "card-news") THEN <<"visuals/card-news/slide-01.png">> ELSE <<>>)
  \o (IF Contains(targets, "shorts-videos") THEN <<"shorts-videos/shorts-01.mp4">> ELSE <<>>)

\* orchestrator._required_paths_for_targets
_required_paths_for_targets(targets) ==
  <<"brief.md">>
  \o (IF Contains(targets, "newsletter") THEN <<"newsletter.md">> ELSE <<>>)
  \o (IF Contains(targets, "blog") THEN <<"blog.md">> ELSE <<>>)
  \o (IF Contains(targets, "linkedin") THEN <<"linkedin.md">> ELSE <<>>)
  \o (IF Contains(targets, "youtube-script") THEN <<"youtube-script.md">> ELSE <<>>)
  \o (IF Contains(targets, "threads") THEN <<"threads/thread-01.md">> ELSE <<>>)
  \o (IF Contains(targets, "shorts-scripts") THEN <<"shorts-scripts/shorts-01.md">> ELSE <<>>)
  \o (IF Contains(targets, "thumbnail") THEN <<"visuals/thumbnail.png">> ELSE <<>>)
  \o (IF Contains(targets, "card-news") THEN <<"visuals/card-news/slide-01.png">> ELSE <<>>)
  \o (IF Contains(targets, "chart") THEN <<"charts/overview.png", "charts/trend.png">> ELSE <<>>)
  \o (IF Contains(targets, "shorts-videos") THEN <<"shorts-videos/shorts-01.mp4">> ELSE <<>>)

\* first file that agents._generate_target writes for a text target
TextPath(t) ==
  CASE t = "newsletter"     -> "newsletter.md"
    [] t = "blog"           -> "blog.md"
    [] t = "linkedin"       -> "linkedin.md"
    [] t = "youtube-script" -> "youtube-script.md"
    [] t = "threads"        -> "threads/thread-01.md"
    [] t = "shorts-scripts" -> "shorts-scripts/shorts-01.md"

\* targets whose generation writes several files in a loop
MultiFile == {"threads", "shorts-scripts"}

----------------------------------------------------------------------------
(* Output directory of a job.  A path is "none" (absent), "ok", "bad"      *)
(* (an image of the wrong size), "corrupt" (bytes that are no image) or    *)
(* "empty" (a zero-byte clip that ffprobe fails on); a clip is "noprobe"   *)
(* when it is such a zero-byte clip on a host without ffprobe.             *)

Paths ==
  {"brief.md", "review-report.md", "newsletter.md", "blog.md", "linkedin.md",
   "youtube-script.md", "threads/thread-01.md", "shorts-scripts/shorts-01.md",
   "visuals", "visuals/thumbnail.png", "visuals/card-news/slide-01.png",
   "charts", "charts/overview.png", "charts/trend.png",
   "shorts-videos", "shorts-videos/shorts-01.mp4"}

EmptyDir == [p \in Paths |-> "none"]

exists(d, p) == d[p] # "none"

----------------------------------------------------------------------------
(* Job store *)

\* models.Job as inserted by create_job; the source, tone and language of
\* the request and the creation time are single values, the id is the key
\* of the record in jobs
NewJob(targets, mock) ==
  [source           |-> "source",
   targets          |-> targets,
   tone             |-> "tone",
   language         |-> "ko",
   mock_mode        |-> mock,
   created_at       |-> TRUE,
   status           |-> "PENDING",
   current_stage    |-> "QUEUED",
   progress         |-> 0,
   error_message    |-> <<>>,
   retry_count      |-> 0,
   cancel_requested |-> FALSE,
   started_at       |-> FALSE,
   finished_at      |-> FALSE]

\* history of the current run of a job, kept for the properties only
\*   checked   stages whose checkpoint the run has passed
\*   invoked   stages whose generator the run has called
\*   raised    stages and text targets whose generation raised
\*   reviews   number of calls of the reviewer
\*   report    review-report.md was written
\*   observed  a checkpoint found cancel_requested set
\*   eff       the effective target list after the shorts adjustment
NewHist ==
  [checked |-> {}, invoked |-> {}, raised |-> {}, reviews |-> 0,
   report |-> FALSE, observed |-> FALSE, eff |-> <<>>]

\* JobQueue.__init__: no worker thread, no processor, stop signal clear
NewJobQueue == [_worker |-> 0, _stop_event |-> FALSE, _processor |-> "None"]

\* record of the calls made on the JobQueue, kept for the properties only
\*   enqueued  every id given to enqueue, in call order
\*   handed    every id given to the processor, in call order
\*   op        the latest call: start, stop or enqueue
\*   proc      the processor given to the latest start
\*   tick      flips with every such call
NewLog == [enqueued |-> <<>>, handed |-> <<>>, op |-> "none", proc |-> "None",
           tick |-> FALSE]

\* no target list under normalisation
NoNorm == [input |-> <<>>, step |-> "none", out |-> <<>>, again |-> <<>>,
           rejected |-> FALSE, val |-> <<>>]

\* a file of an output directory as the reviewer meets it: absent, an image
\* of some size, or bytes that are no image
NoFile == [there |-> FALSE, ok |-> FALSE, size |-> <<0, 0>>]

\* an output directory with nothing in it, on a host without ffprobe
NoListing ==
  [brief |-> FALSE, visuals |-> FALSE, thumb |-> NoFile, slides |-> 0,
   charts |-> FALSE,
   chart |-> [n \in {"extra.png", "overview.png", "trend.png"} |-> NoFile],
   shorts |-> FALSE, clips |-> <<>>, ffprobe |-> FALSE]

\* no directory under review
NoReview ==
  [dir |-> NoListing, targets |-> <<>>, step |-> "none", failures |-> <<>>,
   report |-> <<>>, status |-> ""]

\* the slides that NanobananaProvider.generate_assets can write
SlidePaths ==
  <<"visuals/card-news/slide-01.png", "visuals/card-news/slide-02.png",
    "visuals/card-news/slide-03.png", "visuals/card-news/slide-04.png",
    "visuals/card-news/slide-05.png", "visuals/card-news/slide-06.png",
    "visuals/card-news/slide-07.png">>

\* the two charts of ChartAssetService.generate_assets
ChartPaths == <<"charts/overview.png", "charts/trend.png">>

ImagePaths ==
  {SlidePaths[i] : i \in 1..7} \cup {"visuals/thumbnail.png"}
  \cup {ChartPaths[i] : i \in 1..2}

\* no image written
NoImages == [p \in ImagePaths |-> "none"]

\* no provider call
NoProvider ==
  [svc |-> "none", mock |-> FALSE, cards |-> FALSE, thumb |-> FALSE,
   api |-> "unset", slide_count |-> 0, images |-> <<>>, idx |-> 0,
   messages |-> 0, at |-> "none", attempt |-> 0, posts |-> 0,
   last |-> "none", ended |-> "none", dirs |-> {}, files |-> NoImages,
   paths |-> <<>>, warnings |-> <<>>]

\* no download request
NoDownload ==
  [job |-> "", absolute |-> FALSE, path |-> <<>>, step |-> "none", code |-> 0,
   served |-> <<>>]

\* no retry request so far
\*   calls  the retry_job calls in the order of their reads
\*   puts   the ids that retry_job calls have enqueued
NoRequests == [calls |-> <<>>, puts |-> <<>>]

\* no text stage under way
\*   step       none, start, running, returned or raised
\*   targets    the effective target list given to generate_text_assets
\*   tasks      per selected target the state of its future (running, done
\*              or raised) and the number of files it has written
\*   finished   the targets in the order their futures completed
\*   collected  how many of them the as_completed loop has handled
\*   artifacts, failures   the two lists of generate_text_assets
\*   dirs, files           what the call has created in the output directory
NoText ==
  [step |-> "none", targets |-> <<>>, tasks |-> <<>>, finished |-> <<>>,
   collected |-> 0, artifacts |-> <<>>, failures |-> <<>>, dirs |-> {},
   files |-> {}]

\* no single text under generation
\*   step       none, start, loop, returned or raised
\*   mock_mode  the flag given to _generate_single_text
\*   providers  the provider list with what each would say and answer
\*   idx        the position of the for loop in the provider list
\*   calls      the providers whose generate was called, in call order
\*   result     who wrote the returned text, and the text
NoSingle ==
  [step |-> "none", mock_mode |-> FALSE, providers |-> <<>>, idx |-> 0,
   calls |-> <<>>, result |-> [by |-> "", text |-> ""]]

\* no brief variables under resolution
\*   step        none, start, ask, returned or raised
\*   configs     the variable configurations of planner.brief-template
\*   mock_mode   the flag of the job
\*   available   is_available of the two text providers
\*   asked       the provider whose generate was called, 0 for none
\*   raw         what generate did, parsed the candidates it held
\*   result      the dict _resolve_brief_ai_variables returns
NoBrief ==
  [step |-> "none", configs |-> <<>>, mock_mode |-> FALSE,
   available |-> <<FALSE, FALSE>>, asked |-> 0, raw |-> "none",
   parsed |-> <<>>, result |-> <<>>]

\* no key message extraction
\*   step        none, start, collected, scored or returned
\*   text        the sentences of the source text, in order
\*   count       the number of messages asked for
\*   candidates  what _collect_candidates has kept
\*   picked      the candidates the messages come from, in order
\*   scored      how many of them the scoring loop has selected
\*   selected    the messages
NoMessages ==
  [step |-> "none", text |-> <<>>, count |-> 0, candidates |-> <<>>,
   picked |-> <<>>, scored |-> 0, selected |-> <<>>]

\* everything but the target list under normalisation
Idle ==
  /\ jobs = <<>>
  /\ queue = <<>>
  /\ disk = <<>>
  /\ pc = "idle"
  /\ stage = 1
  /\ cur = 0
  /\ snap = [targets |-> <<>>, mock_mode |-> FALSE, cancel_requested |-> FALSE]
  /\ eff = <<>>
  /\ video = FALSE
  /\ failures = <<>>
  /\ warnings = <<>>
  /\ resp = [op |-> "none", id |-> 0, code |-> 0, status |-> "", tick |-> FALSE]
  /\ hist = <<>>
  /\ workers = <<>>
  /\ jq = NewJobQueue
  /\ qlog = NewLog

\* the other variables of the specifications of single functions
Unused(v) ==
  /\ (v # "norm") => (norm = NoNorm)
  /\ (v # "rev") => (rev = NoReview)
  /\ (v # "prov") => (prov = NoProvider)
  /\ (v # "art") => (art = NoDownload)
  /\ (v # "reqs") => (reqs = NoRequests)
  /\ (v # "text") => (text = NoText)
  /\ (v # "single") => (single = NoSingle)
  /\ (v # "brief") => (brief = NoBrief)
  /\ (v # "msgs") => (msgs = NoMessages)

Init == Idle /\ Unused("")

worker_vars == <<pc, stage, cur, snap, eff, video, failures, warnings>>

\* the variables of the application, of QueueSpec and of NormSpec
app_vars == <<jobs, queue, disk, resp, hist, pc, stage, cur, snap, eff, video,
              failures, warnings, workers, jq, qlog, norm>>

\* the variables of the specifications of single functions
\* the variables of the text generation and planner functions
fn_vars == <<text, single, brief, msgs>>

check_vars == <<rev, prov, art, reqs, fn_vars>>

\* the variables of QueueSpec, NormSpec and of the single functions
side_vars == <<workers, jq, qlog, norm, check_vars>>

\* what QueueSpec leaves alone: the job store and the position in process_job
pipeline_vars == <<jobs, disk, pc, stage, cur, snap, eff, video, failures,
                   warnings, resp, hist, check_vars>>

----------------------------------------------------------------------------
(* Job store operations of the orchestrator *)

\* an update that inserts the fields when the record does not exist
_update_job_upsert(js, id, fields) ==
  IF id \in DOMAIN js THEN [js EXCEPT ![id] = fields @@ js[id]]
  ELSE js @@ (id :> fields)

\* JobOrchestrator._update_job: set the given fields of the stored record,
\* nothing when the record does not exist
_update_job(js, id, fields) ==
  IF id \in DOMAIN js THEN [js EXCEPT ![id] = fields @@ js[id]] ELSE js

\* a fatal failure recorded as a partial success
_fail_job_partial(js, id, message) ==
  _update_job(js, id,
    [status        |-> "PARTIAL_SUCCESS",
     current_stage |-> "DONE",
     progress      |-> StageProgress["DONE"],
     error_message |-> <<message>>,
     finished_at   |-> TRUE])

\* JobOrchestrator._fail_job
_fail_job(js, id, message) ==
  _update_job(js, id,
    [status        |-> "FAILED",
     current_stage |-> "DONE",
     progress      |-> StageProgress["DONE"],
     error_message |-> <<message>>,
     finished_at   |-> TRUE])

\* the flag taken from the copy fetched at the start of the run
cancel_flag_stale(js, id, copy) == copy.cancel_requested

\* the flag _cancel_if_requested looks at: read from the store at the
\* checkpoint, not from the copy process_job fetched at its start
cancel_flag(js, id, copy) == js[id].cancel_requested

\* a cancel write that also takes the request back
_cancel_if_requested_clears_flag(js, id) ==
  [js EXCEPT ![id].status           = "CANCELED",
             ![id].current_stage    = "DONE",
             ![id].progress         = StageProgress["DONE"],
             ![id].finished_at      = TRUE,
             ![id].cancel_requested = FALSE]

\* JobOrchestrator._cancel_if_requested, the write of the cancelled case
_cancel_if_requested(js, id) ==
  [js EXCEPT ![id].status        = "CANCELED",
             ![id].current_stage = "DONE",
             ![id].progress      = StageProgress["DONE"],
             ![id].finished_at   = TRUE]

\* a final status that tolerates a single failure
final_status_lenient(fs) == IF Len(fs) > 1 THEN "PARTIAL_SUCCESS" ELSE "SUCCEEDED"

\* process_job lines 167-168
final_status(fs) == IF fs # <<>> THEN "PARTIAL_SUCCESS" ELSE "SUCCEEDED"

error_message(fs) == IF fs # <<>> THEN Take(fs, ErrorLimit) ELSE <<>>

----------------------------------------------------------------------------
(* API handlers (routes_jobs.py).  Each handler is one request: it reads   *)
(* the record, decides, commits and answers.                               *)

Answer(op, id, code, status) ==
  [op |-> op, id |-> id, code |-> code, status |-> status, tick |-> ~resp.tick]

\* a retry that is open to every finished job
retry_allowed_any_terminal(status) == status \in TERMINAL

\* statuses from which retry_job goes on
retry_allowed(status) == status \in RETRYABLE

\* a retry limit that is never reached
retry_limit_reached_never(count) == FALSE

\* routes_jobs.py:109  if job.retry_count >= 1
retry_limit_reached(count) == count >= RetryLimit

\* a reset that leaves the cancel flag of the previous run in place
retry_reset_keeps_flag(job) ==
  [retry_count      |-> job.retry_count + 1,
   status           |-> "PENDING",
   current_stage    |-> "QUEUED",
   progress         |-> 0,
   error_message    |-> <<>>,
   started_at       |-> FALSE,
   finished_at      |-> FALSE] @@ job

\* routes_jobs.py:111-118  the fields retry_job writes
retry_reset(job) ==
  [retry_count      |-> job.retry_count + 1,
   status           |-> "PENDING",
   current_stage    |-> "QUEUED",
   progress         |-> 0,
   error_message    |-> <<>>,
   started_at       |-> FALSE,
   finished_at      |-> FALSE,
   cancel_requested |-> FALSE] @@ job


\* a cancel that treats only cancelled jobs as finished
cancel_noop_canceled_only(status) == status = "CANCELED"

\* statuses for which cancel_job answers without writing
cancel_noop(status) == status \in TERMINAL

\* an enqueue that drops an id that is already waiting
put_unique(q, id) == IF Contains(q, id) THEN q ELSE Append(q, id)

\* queue.py:30  self._queue.put(job_id)
put(q, id) == Append(q, id)

\* every id is handed out once, also after records were deleted
create_job(req, mock) ==
  LET id == Len(hist) + 1 IN
  /\ id \in JobIds
  /\ ~targets_rejected(req)
  /\ jobs' = jobs @@ (id :> NewJob(validate_targets(req), mock))
  /\ disk' = disk @@ (id :> EmptyDir)
  /\ hist' = hist @@ (id :> NewHist)
  /\ queue' = put(queue, id)
  /\ resp' = Answer("create", id, 200, "PENDING")
  /\ UNCHANGED worker_vars
  /\ UNCHANGED side_vars

retry_job(id) ==
  /\ IF id \notin DOMAIN jobs
       THEN /\ resp' = Answer("retry", id, 404, "")
            /\ UNCHANGED <<jobs, queue>>
     ELSE IF ~retry_allowed(jobs[id].status)
       THEN /\ resp' = Answer("retry", id, 400, jobs[id].status)
            /\ UNCHANGED <<jobs, queue>>
     ELSE IF retry_limit_reached(jobs[id].retry_count)
       THEN /\ resp' = Answer("retry", id, 400, jobs[id].status)
            /\ UNCHANGED <<jobs, queue>>
     ELSE /\ jobs' = [jobs EXCEPT ![id] = retry_reset(@)]
          /\ queue' = put(queue, id)
          /\ resp' = Answer("retry", id, 200, "PENDING")
  /\ UNCHANGED <<disk, hist, worker_vars>>
  /\ UNCHANGED side_vars

cancel_job(id) ==
  /\ IF id \notin DOMAIN jobs
       THEN /\ resp' = Answer("cancel", id, 404, "")
            /\ UNCHANGED jobs
     ELSE IF cancel_noop(jobs[id].status)
       THEN /\ resp' = Answer("cancel", id, 200, jobs[id].status)
            /\ UNCHANGED jobs
     ELSE /\ jobs' = [jobs EXCEPT ![id].cancel_requested = TRUE]
          /\ resp' = Answer("cancel", id, 200, "CANCELED")
  /\ UNCHANGED <<queue, disk, hist, worker_vars>>
  /\ UNCHANGED side_vars

----------------------------------------------------------------------------
(* The worker: JobQueue._run takes the next id and calls process_job.      *)
(* pc is the position inside process_job, stage the index into Stages.     *)

\* queue.py:35-40  job_id = self._queue.get(...); self._processor(job_id)
Dequeue ==
  /\ pc = "idle"
  /\ queue # <<>>
  /\ cur' = Head(queue)
  /\ queue' = Tail(queue)
  /\ pc' = "start"
  /\ UNCHANGED <<jobs, disk, stage, snap, eff, video, failures, warnings,
                 resp, hist>>
  /\ UNCHANGED side_vars

\* process_job lines 35-47
Start ==
  /\ pc = "start"
  /\ jobs' = _update_job(jobs, cur,
               [status        |-> "RUNNING",
                current_stage |-> "INGESTION",
                progress      |-> StageProgress["INGESTION"],
                started_at    |-> TRUE,
                error_message |-> <<>>])
  /\ hist' = IF cur \in DOMAIN hist THEN [hist EXCEPT ![cur] = NewHist] ELSE hist
  /\ pc' = "get"
  /\ UNCHANGED <<queue, disk, stage, cur, snap, eff, video, failures,
                 warnings, resp>>
  /\ UNCHANGED side_vars

\* process_job lines 49-51 and the locals of lines 55-59
GetJob ==
  /\ pc = "get"
  /\ IF cur \notin DOMAIN jobs
       THEN /\ pc' = "idle"
            /\ UNCHANGED <<stage, snap, eff, failures, warnings>>
       ELSE /\ snap' = [targets          |-> jobs[cur].targets,
                        mock_mode        |-> jobs[cur].mock_mode,
                        cancel_requested |-> jobs[cur].cancel_requested]
            /\ eff' = _normalize_targets(jobs[cur].targets)
            /\ failures' = <<>>
            /\ warnings' = <<>>
            /\ stage' = 1
            /\ pc' = "chk"
  /\ video' = FALSE
  /\ UNCHANGED <<jobs, queue, disk, cur, resp, hist>>
  /\ UNCHANGED side_vars

\* the checkpoint before Stages[stage]: lines 52, 73, 86, 105, 123, 139, 159
Checkpoint ==
  /\ pc = "chk"
  /\ IF cur \notin DOMAIN jobs
       THEN /\ pc' = "idle"
            /\ UNCHANGED <<jobs, hist>>
     ELSE IF cancel_flag(jobs, cur, snap)
       THEN /\ jobs' = _cancel_if_requested(jobs, cur)
            /\ hist' = [hist EXCEPT ![cur].observed = TRUE]
            /\ pc' = "idle"
     ELSE /\ pc' = IF stage = 1 THEN "run" ELSE "upd"
          /\ hist' = [hist EXCEPT ![cur].checked = @ \cup {Stages[stage]}]
          /\ UNCHANGED jobs
  /\ UNCHANGED <<queue, disk, stage, cur, snap, eff, video, failures,
                 warnings, resp>>
  /\ UNCHANGED side_vars

\* the _update_job that follows a passed checkpoint: lines 75, 88, 107,
\* 125, 141, 161
UpdateStage ==
  /\ pc = "upd"
  /\ jobs' = _update_job(jobs, cur,
               [current_stage |-> Stages[stage],
                progress      |-> StageProgress[Stages[stage]]])
  /\ pc' = "run"
  /\ UNCHANGED <<queue, disk, stage, cur, snap, eff, video, failures,
                 warnings, resp, hist>>
  /\ UNCHANGED side_vars

\* an except branch that swallows the exception
record_failure_dropped(fs, name) == fs

\* process_job lines 103, 121, 137, 157: failures.append(...) in the except
\* branch of a stage
record_failure(fs, name) == Append(fs, <<"stage", name>>)

\* bookkeeping of a stage whose generator was called
Invoke(h, s) == [h EXCEPT !.invoked = @ \cup {s}]

Raise(h, e) == [h EXCEPT !.raised = @ \cup {e}]

\* a shorts adjustment that does not look at mock_mode
skip_shorts_even_mock(targets, v, mock) ==
  Contains(targets, "shorts-videos") /\ ~v

\* process_job line 69: shorts-videos is requested, ingestion found no
\* source video and the job is not in mock mode
skip_shorts(targets, v, mock) ==
  Contains(targets, "shorts-videos") /\ ~v /\ ~mock

\* process_job lines 61-71: ingest_source and the shorts adjustment
Ingestion ==
  /\ pc = "run" /\ stage = 1
  /\ \E outcome \in {"ok", "raise"}, v \in BOOLEAN, w \in BOOLEAN :
       \* the mock source has neither a video nor warnings
       /\ snap.mock_mode => (~v /\ ~w)
       /\ outcome = "raise" => (~v /\ ~w)
       /\ IF outcome = "raise"
            THEN /\ jobs' = _fail_job(jobs, cur, <<"stage", "INGESTION">>)
                 /\ hist' = [hist EXCEPT ![cur] =
                               Raise(Invoke(@, "INGESTION"), "INGESTION")]
                 /\ pc' = "idle"
                 /\ UNCHANGED <<stage, eff, video, warnings>>
            ELSE /\ video' = v
                 /\ LET drop == skip_shorts(eff, v, snap.mock_mode)
                    IN /\ eff' = IF drop
                                   THEN SelectSeq(eff, LAMBDA t : t # "shorts-videos")
                                   ELSE eff
                       /\ warnings' = (IF w THEN <<"ingestion">> ELSE <<>>)
                                      \o (IF drop THEN <<"shorts-skipped">> ELSE <<>>)
                 /\ hist' = [hist EXCEPT ![cur] =
                               [Invoke(@, "INGESTION") EXCEPT !.eff = eff']]
                 /\ stage' = 2
                 /\ pc' = "chk"
                 /\ UNCHANGED jobs
  /\ UNCHANGED <<queue, disk, cur, snap, failures, resp>>
  /\ UNCHANGED side_vars

\* process_job lines 77-84: _build_brief and the write of brief.md
Planner ==
  /\ pc = "run" /\ stage = 2
  /\ \E outcome \in {"ok", "raise"} :
       IF outcome = "raise"
         THEN /\ jobs' = _fail_job(jobs, cur, <<"stage", "PLANNER">>)
              /\ hist' = [hist EXCEPT ![cur] =
                            Raise(Invoke(@, "PLANNER"), "PLANNER")]
              /\ pc' = "idle"
              /\ UNCHANGED <<stage, disk>>
         ELSE /\ disk' = [disk EXCEPT ![cur]["brief.md"] = "ok"]
              /\ hist' = [hist EXCEPT ![cur] = Invoke(@, "PLANNER")]
              /\ stage' = 3
              /\ pc' = "chk"
              /\ UNCHANGED jobs
  /\ UNCHANGED <<queue, cur, snap, eff, video, failures, warnings, resp>>
  /\ UNCHANGED side_vars

\* agents.TextAgentService.generate_text_assets line 41
selected_targets(targets) == SelectSeq(targets, LAMBDA t : t \in TEXT_TARGETS)

\* the entries generate_text_assets returns for the failed targets, in the
\* order their futures completed (line 71)
text_failures(order) == [i \in 1..Len(order) |-> <<"target", order[i]>>]

\* files of the text stage after a call in which the targets of failed
\* raised; those of partial had written their first file before raising
text_files(d, sel, failed, partial) ==
  [p \in Paths |->
     IF \E t \in (Range(sel) \ failed) \cup partial : p = TextPath(t)
       THEN "ok" ELSE d[p]]

\* process_job lines 90-103
TextAgents ==
  /\ pc = "run" /\ stage = 3
  /\ LET sel == selected_targets(eff) IN
     \/ /\ sel # <<>>
        /\ failures' = record_failure(failures, "TEXT_AGENTS")
        /\ hist' = [hist EXCEPT ![cur] =
                      Raise(Invoke(@, "TEXT_AGENTS"), "TEXT_AGENTS")]
        /\ UNCHANGED disk
     \/ \E failed \in SUBSET Range(sel) :
          \E order \in Perms(failed), partial \in SUBSET (failed \cap MultiFile) :
            /\ failures' = failures \o text_failures(order)
            /\ disk' = [disk EXCEPT ![cur] = text_files(@, sel, failed, partial)]
            /\ hist' = [hist EXCEPT ![cur] =
                          [Invoke(@, "TEXT_AGENTS") EXCEPT !.raised = @ \cup failed]]
  /\ stage' = 4
  /\ pc' = "chk"
  /\ UNCHANGED <<jobs, queue, cur, snap, eff, video, warnings, resp>>
  /\ UNCHANGED side_vars

\* process_job lines 109-121 with NanobananaProvider.generate_assets
Visual ==
  /\ pc = "run" /\ stage = 4
  /\ LET cards == Contains(eff, "card-news")
         thumb == Contains(eff, "thumbnail")
     IN IF ~(cards \/ thumb)
          THEN UNCHANGED <<disk, failures, warnings, hist>>
          ELSE \E outcome \in {"ok", "raise_early", "raise_dir", "raise_late"},
                  size \in {"ok", "bad", "corrupt"}, w \in BOOLEAN :
                 /\ snap.mock_mode => (size = "ok" /\ ~w)
                 /\ outcome # "ok" => (size = "ok" /\ ~w)
                 /\ ~thumb => size = "ok"
                 /\ outcome = "raise_late" => cards
                 /\ hist' = [hist EXCEPT ![cur] =
                               IF outcome = "ok" THEN Invoke(@, "VISUAL")
                               ELSE Raise(Invoke(@, "VISUAL"), "VISUAL")]
                 /\ failures' = IF outcome = "ok" THEN failures
                                ELSE record_failure(failures, "VISUAL")
                 /\ warnings' = IF w THEN Append(warnings, "visual-fallback")
                                ELSE warnings
                 /\ disk' = [disk EXCEPT ![cur] =
                      [p \in Paths |->
                         CASE p = "visuals" /\ outcome # "raise_early" -> "ok"
                           [] p = "visuals/card-news/slide-01.png" /\ cards
                              /\ outcome \in {"ok", "raise_late"} -> "ok"
                           [] p = "visuals/thumbnail.png" /\ thumb
                              /\ outcome = "ok" -> size
                           [] OTHER -> @[p]]]
  /\ stage' = 5
  /\ pc' = "chk"
  /\ UNCHANGED <<jobs, queue, cur, snap, eff, video, resp>>
  /\ UNCHANGED side_vars

\* process_job lines 127-137 with ChartAssetService.generate_assets
Chart ==
  /\ pc = "run" /\ stage = 5
  /\ IF ~Contains(eff, "chart")
       THEN UNCHANGED <<disk, failures, warnings, hist>>
       ELSE \E outcome \in {"ok", "raise_early", "raise_dir", "raise_late"},
               w \in BOOLEAN :
              /\ (snap.mock_mode \/ outcome # "ok") => ~w
              /\ hist' = [hist EXCEPT ![cur] =
                            IF outcome = "ok" THEN Invoke(@, "CHART")
                            ELSE Raise(Invoke(@, "CHART"), "CHART")]
              /\ failures' = IF outcome = "ok" THEN failures
                             ELSE record_failure(failures, "CHART")
              /\ warnings' = IF w THEN Append(warnings, "chart-fallback")
                             ELSE warnings
              /\ disk' = [disk EXCEPT ![cur] =
                   [p \in Paths |->
                      CASE p = "charts" /\ outcome # "raise_early" -> "ok"
                        [] p = "charts/overview.png"
                           /\ outcome \in {"ok", "raise_late"} -> "ok"
                        [] p = "charts/trend.png" /\ outcome = "ok" -> "ok"
                        [] OTHER -> @[p]]]
  /\ stage' = 6
  /\ pc' = "chk"
  /\ UNCHANGED <<jobs, queue, cur, snap, eff, video, resp>>
  /\ UNCHANGED side_vars

\* process_job lines 143-157 with ShortsVideoService.generate_assets
Shorts ==
  /\ pc = "run" /\ stage = 6
  /\ IF ~Contains(eff, "shorts-videos")
       THEN UNCHANGED <<disk, failures, warnings, hist>>
       ELSE \E outcome \in {"ok", "empty", "noprobe", "raise"} :
              \* only the mock clips fall back to a zero-byte file (when
              \* ffmpeg fails or is not installed), and the mock branch
              \* returns before the raising code
              /\ outcome = "raise" => ~snap.mock_mode
              /\ outcome \in {"empty", "noprobe"} => snap.mock_mode
              /\ hist' = [hist EXCEPT ![cur] =
                            IF outcome = "raise"
                              THEN Raise(Invoke(@, "SHORTS"), "SHORTS")
                              ELSE Invoke(@, "SHORTS")]
              /\ failures' = IF outcome = "raise"
                               THEN record_failure(failures, "SHORTS")
                               ELSE failures
              /\ warnings' = IF outcome \in {"empty", "noprobe"}
                               THEN Append(warnings, "shorts-mock-failed")
                               ELSE warnings
              /\ disk' = [disk EXCEPT ![cur] =
                   [p \in Paths |->
                      CASE p = "shorts-videos" -> "ok"
                        [] p = "shorts-videos/shorts-01.mp4"
                           /\ outcome # "raise" -> outcome
                        [] OTHER -> @[p]]]
  /\ stage' = 7
  /\ pc' = "chk"
  /\ UNCHANGED <<jobs, queue, cur, snap, eff, video, resp>>
  /\ UNCHANGED side_vars

----------------------------------------------------------------------------
(* The reviewer *)

\* _run_reviewer lines 333-340: one entry per required path that is absent
missing_required(d, targets) ==
  LET req == _required_paths_for_targets(targets)
  IN Flatten([i \in 1..Len(req) |->
                IF exists(d, req[i]) THEN <<>> ELSE << <<"missing", req[i]>> >>])

\* _run_reviewer lines 342-362
visual_checks(d, targets) ==
  IF (Contains(targets, "card-news") \/ Contains(targets, "thumbnail"))
     /\ exists(d, "visuals")
    THEN (IF ~Contains(targets, "thumbnail") THEN <<>>
          ELSE IF ~exists(d, "visuals/thumbnail.png")
            THEN << <<"missing", "visuals/thumbnail.png">> >>
          ELSE IF d["visuals/thumbnail.png"] = "bad"
            THEN << <<"resolution", "visuals/thumbnail.png">> >>
          ELSE <<>>)
         \o (IF Contains(targets, "card-news")
                /\ ~exists(d, "visuals/card-news/slide-01.png")
               THEN << <<"slide-count", "0">> >> ELSE <<>>)
    ELSE <<>>

\* _run_reviewer lines 364-378
chart_checks(d, targets) ==
  IF Contains(targets, "chart") /\ exists(d, "charts")
    THEN LET files == SelectSeq(<<"charts/overview.png", "charts/trend.png">>,
                                LAMBDA p : exists(d, p))
         IN (IF Len(files) < 2
               THEN << <<"chart-count", IF Len(files) = 0 THEN "0" ELSE "1">> >>
               ELSE <<>>)
            \o Flatten([i \in 1..Len(files) |->
                 IF d[files[i]] = "bad"
                   THEN << <<"resolution", files[i]>> >> ELSE <<>>])
    ELSE <<>>

\* _run_reviewer lines 380-397: a clip that cannot be probed gives a
\* warning line only
shorts_checks(d, targets) ==
  IF Contains(targets, "shorts-videos") /\ exists(d, "shorts-videos")
     /\ d["shorts-videos/shorts-01.mp4"] = "bad"
    THEN << <<"not-vertical", "shorts-videos/shorts-01.mp4">> >>
    ELSE <<>>

\* Image.open on bytes that are no image raises inside the reviewer, and
\* so does probe_video on a host without ffprobe
reviewer_raises(d, targets) ==
  \/ /\ Contains(targets, "card-news") \/ Contains(targets, "thumbnail")
     /\ exists(d, "visuals")
     /\ Contains(targets, "thumbnail")
     /\ d["visuals/thumbnail.png"] = "corrupt"
  \/ /\ Contains(targets, "chart") /\ exists(d, "charts")
     /\ \E p \in {"charts/overview.png", "charts/trend.png"} : d[p] = "corrupt"
  \/ /\ Contains(targets, "shorts-videos") /\ exists(d, "shorts-videos")
     /\ d["shorts-videos/shorts-01.mp4"] = "noprobe"

\* a reviewer that hands back the failures it was given with its own
_run_reviewer_readding(d, targets, given) ==
  given \o missing_required(d, targets) \o visual_checks(d, targets)
  \o chart_checks(d, targets) \o shorts_checks(d, targets)

\* JobOrchestrator._run_reviewer: the review failures it returns; the
\* failures it is given go into the report only
_run_reviewer(d, targets, given) ==
  missing_required(d, targets) \o visual_checks(d, targets)
  \o chart_checks(d, targets) \o shorts_checks(d, targets)

\* a review that is skipped when a stage has already failed
Review_skipped_on_failure ==
  /\ pc = "run" /\ stage = 7
  /\ IF failures # <<>>
       THEN /\ pc' = "final"
            /\ UNCHANGED <<disk, failures, hist>>
       ELSE /\ failures' = failures \o _run_reviewer(disk[cur], eff, failures)
            /\ disk' = [disk EXCEPT ![cur]["review-report.md"] = "ok"]
            /\ hist' = [hist EXCEPT ![cur] =
                          [Invoke(@, "REVIEW")
                             EXCEPT !.reviews = @ + 1, !.report = TRUE]]
            /\ pc' = "final"
  /\ UNCHANGED <<jobs, queue, stage, cur, snap, eff, video, warnings, resp>>
  /\ UNCHANGED side_vars

\* process_job lines 163-165; an exception of the reviewer leaves
\* process_job and ends the worker thread (queue.py:38-42 has no except)
Review ==
  /\ pc = "run" /\ stage = 7
  /\ IF reviewer_raises(disk[cur], eff)
       THEN /\ pc' = "dead"
            /\ hist' = [hist EXCEPT ![cur] =
                          [Raise(Invoke(@, "REVIEW"), "REVIEW")
                             EXCEPT !.reviews = @ + 1]]
            /\ UNCHANGED <<disk, failures>>
       ELSE /\ failures' = failures \o _run_reviewer(disk[cur], eff, failures)
            /\ disk' = [disk EXCEPT ![cur]["review-report.md"] = "ok"]
            /\ hist' = [hist EXCEPT ![cur] =
                          [Invoke(@, "REVIEW")
                             EXCEPT !.reviews = @ + 1, !.report = TRUE]]
            /\ pc' = "final"
  /\ UNCHANGED <<jobs, queue, stage, cur, snap, eff, video, warnings, resp>>
  /\ UNCHANGED side_vars

\* process_job lines 167-176
Finalize ==
  /\ pc = "final"
  /\ jobs' = _update_job(jobs, cur,
               [status        |-> final_status(failures),
                current_stage |-> "DONE",
                progress      |-> StageProgress["DONE"],
                error_message |-> error_message(failures),
                finished_at   |-> TRUE])
  /\ pc' = "idle"
  /\ UNCHANGED <<queue, disk, stage, cur, snap, eff, video, failures,
                 warnings, resp, hist>>
  /\ UNCHANGED side_vars

----------------------------------------------------------------------------

Worker ==
  \/ Dequeue \/ Start \/ GetJob \/ Checkpoint \/ UpdateStage
  \/ Ingestion \/ Planner \/ TextAgents \/ Visual \/ Chart \/ Shorts
  \/ Review \/ Finalize

Api ==
  \/ \E req \in TargetLists, mock \in BOOLEAN : create_job(req, mock)
  \/ \E id \in JobIds : retry_job(id)
  \/ \E id \in JobIds : cancel_job(id)

Next == Worker \/ Api

Spec == Init /\ [][Next]_vars

\* the worker thread goes on with its run while it is alive: no database
\* call, file write or provider call of process_job blocks forever.  The
\* read of the job record (GetJob) is enabled exactly when pc = "get" and
\* always leaves it, so its fairness is stated on pc.
PipelineLive ==
  /\ Spec
  /\ WF_vars(Dequeue) /\ WF_vars(Start) /\ []<>(pc # "get")
  /\ WF_vars(Checkpoint) /\ WF_vars(UpdateStage)
  /\ WF_vars(Ingestion) /\ WF_vars(Planner) /\ WF_vars(TextAgents)
  /\ WF_vars(Visual) /\ WF_vars(Chart) /\ WF_vars(Shorts)
  /\ WF_vars(Review) /\ WF_vars(Finalize)

----------------------------------------------------------------------------
(* The application with job records being deleted under it, as             *)
(* core/cleanup.py does for old jobs.                                      *)

\* cleanup.py:29-31 and 36-38: the output directory and the record of one
\* job are removed
delete_record(id) ==
  /\ id \in DOMAIN jobs
  /\ jobs' = [i \in DOMAIN jobs \ {id} |-> jobs[i]]
  /\ disk' = [disk EXCEPT ![id] = EmptyDir]
  /\ UNCHANGED <<queue, resp, hist, worker_vars>>
  /\ UNCHANGED side_vars

DeleteNext ==
  \/ Next
  \/ \E id \in JobIds : delete_record(id)

DeleteSpec == Init /\ [][DeleteNext]_vars

----------------------------------------------------------------------------
(* The application with retry_job calls running side by side.  The         *)
(* handlers are plain functions, which the framework runs on a thread      *)
(* pool, each with a database session of its own: a call reads the record  *)
(* (routes_jobs.py:104-110), writes the fields it has changed with its     *)
(* commit (line 120) and enqueues the id (line 121), and steps of other    *)
(* calls and of the worker come in between.                                *)

\* most retry_job calls
MaxRequests == 2

\* the target lists of the jobs that are retried
RetriedTargets == {<<"blog">>}

conc_others ==
  <<workers, jq, qlog, norm, rev, prov, art, text, single, brief, msgs>>

\* routes_jobs.py:104-110: the call reads the record and answers 404 or 400,
\* or goes on with what it has read
retry_read(id) ==
  /\ Len(reqs.calls) < MaxRequests
  /\ LET answered == [id |-> id, at |-> "done", seen |-> NewJob(<<>>, FALSE)]
     IN IF id \notin DOMAIN jobs
          THEN /\ resp' = Answer("retry", id, 404, "")
               /\ reqs' = [reqs EXCEPT !.calls = Append(@, answered)]
        ELSE IF ~retry_allowed(jobs[id].status)
                \/ retry_limit_reached(jobs[id].retry_count)
          THEN /\ resp' = Answer("retry", id, 400, jobs[id].status)
               /\ reqs' = [reqs EXCEPT !.calls = Append(@, answered)]
        ELSE /\ reqs' = [reqs EXCEPT !.calls =
                           Append(@, [id |-> id, at |-> "commit",
                                      seen |-> jobs[id]])]
             /\ UNCHANGED resp
  /\ UNCHANGED <<jobs, queue, disk, hist, worker_vars>>
  /\ UNCHANGED conc_others

\* session.commit of retry_job: the UPDATE sets the fields whose value the
\* call has changed, computed from what the call has read
committed(now, seen) ==
  LET new == retry_reset(seen)
  IN [f \in DOMAIN now |-> IF new[f] # seen[f] THEN new[f] ELSE now[f]]

\* routes_jobs.py:111-120
retry_commit(r) ==
  /\ r \in DOMAIN reqs.calls
  /\ reqs.calls[r].at = "commit"
  /\ LET id == reqs.calls[r].id
     IN jobs' = [jobs EXCEPT ![id] = committed(@, reqs.calls[r].seen)]
  /\ reqs' = [reqs EXCEPT !.calls[r].at = "enqueue"]
  /\ UNCHANGED <<queue, disk, resp, hist, worker_vars>>
  /\ UNCHANGED conc_others

\* routes_jobs.py:121-122
retry_enqueue(r) ==
  /\ r \in DOMAIN reqs.calls
  /\ reqs.calls[r].at = "enqueue"
  /\ LET id == reqs.calls[r].id
     IN /\ queue' = put(queue, id)
        /\ reqs' = [reqs EXCEPT !.calls[r].at = "done", !.puts = Append(@, id)]
        /\ resp' = Answer("retry", id, 200, "PENDING")
  /\ UNCHANGED <<jobs, disk, hist, worker_vars>>
  /\ UNCHANGED conc_others

ConcApi ==
  \/ \E req \in RetriedTargets, mock \in BOOLEAN : create_job(req, mock)
  \/ \E id \in JobIds : cancel_job(id)
  \/ \E id \in JobIds : retry_read(id)
  \/ \E r \in 1..MaxRequests : retry_commit(r)
  \/ \E r \in 1..MaxRequests : retry_enqueue(r)

ConcNext == Worker \/ ConcApi

ConcSpec == Init /\ [][ConcNext]_vars

----------------------------------------------------------------------------
(* The reviewer by itself: _run_reviewer applied to output directories.    *)
(* rev.dir lists what the reviewer can see of a directory: whether         *)
(* brief.md, the visuals, charts and shorts-videos directories exist, the  *)
(* thumbnail, the number of slide-NN.png files, the PNG files of charts    *)
(* by name, what ffprobe says about each shorts-NN.mp4, and whether the    *)
(* host has an ffprobe executable.  Durations are in tenths of a second.   *)

\* slide counts of the directories under review
SlideCounts == {0, 4, 5, 7, 8}

\* most clips in a shorts-videos directory under review
MaxClips == 2

\* the size the reviewer expects of every image
EXPECTED_SIZE == <<1280, 720>>

ImageSizes == {<<1280, 720>>, <<1024, 1024>>}

Image(z) == [there |-> TRUE, ok |-> TRUE, size |-> z]

\* bytes that Image.open cannot identify
Corrupt == [there |-> TRUE, ok |-> FALSE, size |-> <<0, 0>>]

Files == {NoFile, Corrupt} \cup {Image(z) : z \in ImageSizes}

\* the PNG files of a charts directory in the order of sorted(glob("*.png"))
ChartNames == <<"extra.png", "overview.png", "trend.png">>

\* ffprobe's exit code for a clip and, with exit code 0, the width and
\* height of its first stream and its duration
Clip(rc, w, h, d) == [rc |-> rc, width |-> w, height |-> h, duration |-> d]

Clips ==
  { Clip(1, 0, 0, 0),
    Clip(0, 1080, 1920, 300),
    Clip(0, 1080, 1920, 605),
    Clip(0, 1080, 1920, 606),
    Clip(0, 1920, 1080, 300),
    Clip(0, 540, 960, 300) }

ClipName(i) == IF i = 1 THEN "shorts-01.mp4" ELSE "shorts-02.mp4"

\* the target lists the reviewer is given in ReviewSpec
ReviewTargets ==
  { <<>>,
    <<"thumbnail", "chart">>,
    <<"card-news", "thumbnail", "chart", "shorts-videos">> }

\* the directories under review: files exist in existing directories only
Listings ==
  LET visuals == {[visuals |-> FALSE, thumb |-> NoFile, slides |-> 0]}
                 \cup {[visuals |-> TRUE, thumb |-> f, slides |-> n] :
                         f \in Files, n \in SlideCounts}
      nocharts == [n \in Range(ChartNames) |-> NoFile]
      charts == {[charts |-> FALSE, chart |-> nocharts]}
                \cup {[charts |-> TRUE,
                       chart |-> [n \in Range(ChartNames) |->
                                    CASE n = "extra.png" -> e
                                      [] n = "overview.png" -> o
                                      [] n = "trend.png" -> t]] :
                        e \in {NoFile, Image(EXPECTED_SIZE)},
                        o \in Files,
                        t \in Files \ {Corrupt}}
      shorts == {[shorts |-> FALSE, clips |-> <<>>]}
                \cup {[shorts |-> TRUE, clips |-> c] :
                        c \in UNION {[1..n -> Clips] : n \in 0..MaxClips}}
  IN {[brief |-> TRUE, visuals |-> v.visuals, thumb |-> v.thumb,
       slides |-> v.slides, charts |-> c.charts, chart |-> c.chart,
       shorts |-> s.shorts, clips |-> s.clips, ffprobe |-> p] :
        v \in visuals, c \in charts, s \in shorts, p \in BOOLEAN}

\* Path.exists for the required paths of the image and clip targets
present(l, rel) ==
  CASE rel = "brief.md" -> l.brief
    [] rel = "visuals/thumbnail.png" -> l.thumb.there
    [] rel = "visuals/card-news/slide-01.png" -> l.slides >= 1
    [] rel = "charts/overview.png" -> l.chart["overview.png"].there
    [] rel = "charts/trend.png" -> l.chart["trend.png"].there
    [] rel = "shorts-videos/shorts-01.mp4" -> Len(l.clips) >= 1
    [] OTHER -> FALSE

\* an entry of review_failures: the kind of the message, the name in it,
\* and the size and the count in it, each <<>> when the message has none
Entry(kind, name, size, count) ==
  [kind |-> kind, name |-> name, size |-> size, count |-> count]

\* a line of review-report.md
Line(level, name, size, count) ==
  [level |-> level, name |-> name, size |-> size, count |-> count]

\* what one check of the reviewer adds: a report line and at most one entry
Finding(line, failure) == [line |-> line, failure |-> failure]

\* _run_reviewer lines 333-340
review_required(l, targets) ==
  LET required == _required_paths_for_targets(targets)
  IN [i \in 1..Len(required) |->
        IF present(l, required[i])
          THEN Finding(Line("OK", required[i], <<>>, <<>>), <<>>)
          ELSE Finding(Line("FAIL", required[i], <<>>, <<>>),
                       <<Entry("missing artifact", required[i], <<>>, <<>>)>>)]

\* _run_reviewer lines 344-355: the entry says "thumbnail resolution
\* mismatch (expected 1280x720)", the size found is in the report line
review_thumbnail(l) ==
  IF l.thumb.there
    THEN (IF l.thumb.size # EXPECTED_SIZE
            THEN <<Finding(Line("FAIL", "thumbnail", l.thumb.size, <<>>),
                           <<Entry("resolution mismatch", "thumbnail",
                                   <<>>, <<>>)>>)>>
            ELSE <<Finding(Line("OK", "thumbnail", EXPECTED_SIZE, <<>>), <<>>)>>)
    ELSE <<Finding(Line("FAIL", "thumbnail.png", <<>>, <<>>),
                   <<Entry("missing artifact", "visuals/thumbnail.png",
                           <<>>, <<>>)>>)>>

\* a slide check that accepts four slides
review_slides_from_four(l) ==
  IF ~(4 <= l.slides /\ l.slides <= 7)
    THEN <<Finding(Line("FAIL", "card-news", <<>>, <<l.slides>>),
                   <<Entry("slide count mismatch", "card-news",
                           <<>>, <<l.slides>>)>>)>>
    ELSE <<Finding(Line("OK", "card-news", <<>>, <<l.slides>>), <<>>)>>

\* _run_reviewer lines 356-362
review_slides(l) ==
  IF ~(5 <= l.slides /\ l.slides <= 7)
    THEN <<Finding(Line("FAIL", "card-news", <<>>, <<l.slides>>),
                   <<Entry("slide count mismatch", "card-news",
                           <<>>, <<l.slides>>)>>)>>
    ELSE <<Finding(Line("OK", "card-news", <<>>, <<l.slides>>), <<>>)>>

\* _run_reviewer lines 342-362
review_visuals(l, targets) ==
  IF (Contains(targets, "card-news") \/ Contains(targets, "thumbnail"))
     /\ l.visuals
    THEN (IF Contains(targets, "thumbnail") THEN review_thumbnail(l) ELSE <<>>)
         \o (IF Contains(targets, "card-news") THEN review_slides(l) ELSE <<>>)
    ELSE <<>>

\* sorted(charts_dir.glob("*.png"))
chart_files(l) == SelectSeq(ChartNames, LAMBDA n : l.chart[n].there)

\* _run_reviewer lines 364-378
review_charts(l, targets) ==
  IF Contains(targets, "chart") /\ l.charts
    THEN LET files == chart_files(l)
         IN (IF Len(files) < 2
               THEN <<Finding(Line("FAIL", "charts", <<>>, <<Len(files)>>),
                              <<Entry("count mismatch", "charts",
                                      <<>>, <<Len(files)>>)>>)>>
               ELSE <<Finding(Line("OK", "charts", <<>>, <<Len(files)>>), <<>>)>>)
            \o [i \in 1..Len(files) |->
                  IF l.chart[files[i]].size # EXPECTED_SIZE
                    THEN Finding(Line("FAIL", files[i], l.chart[files[i]].size, <<>>),
                                 <<Entry("resolution mismatch", files[i],
                                         <<>>, <<>>)>>)
                    ELSE Finding(Line("OK", files[i], EXPECTED_SIZE, <<>>), <<>>)]
    ELSE <<>>

\* ShortsVideoService.probe_video: subprocess.run raises FileNotFoundError
\* when there is no ffprobe executable; None when ffprobe exits non-zero
probe_video(installed, clip) ==
  IF ~installed THEN "raise"
  ELSE IF clip.rc # 0 THEN "None"
  ELSE "probed"

\* _run_reviewer lines 380-397 for the clips that ffprobe can be run on
review_shorts(l, targets) ==
  IF Contains(targets, "shorts-videos") /\ l.shorts
    THEN [i \in 1..Len(l.clips) |->
            LET clip == l.clips[i]
                name == ClipName(i)
            IN IF probe_video(l.ffprobe, clip) = "None"
                 THEN Finding(Line("WARN", name, <<>>, <<>>), <<>>)
               ELSE IF ~(clip.height > clip.width /\ clip.width >= 720)
                 THEN Finding(Line("FAIL", name, <<clip.width, clip.height>>, <<>>),
                              <<Entry("is not vertical video", name, <<>>, <<>>)>>)
               ELSE IF clip.duration > 605
                 THEN Finding(Line("FAIL", name, <<>>, <<clip.duration>>),
                              <<Entry("duration exceeds 60s", name, <<>>, <<>>)>>)
               ELSE Finding(Line("OK", name, <<clip.width, clip.height>>,
                                 <<clip.duration>>), <<>>)]
    ELSE <<>>

\* the calls inside _run_reviewer that raise: Image.open on bytes that are
\* no image (lines 347 and 373) and probe_video without ffprobe (line 383)
review_raises(l, targets) ==
  \/ /\ Contains(targets, "card-news") \/ Contains(targets, "thumbnail")
     /\ l.visuals
     /\ Contains(targets, "thumbnail")
     /\ l.thumb.there /\ ~l.thumb.ok
  \/ /\ Contains(targets, "chart") /\ l.charts
     /\ \E n \in Range(ChartNames) : l.chart[n].there /\ ~l.chart[n].ok
  \/ /\ Contains(targets, "shorts-videos") /\ l.shorts
     /\ \E i \in 1..Len(l.clips) : probe_video(l.ffprobe, l.clips[i]) = "raise"

\* everything a call of _run_reviewer that returns has found, in order
findings(l, targets) ==
  review_required(l, targets) \o review_visuals(l, targets)
  \o review_charts(l, targets) \o review_shorts(l, targets)

\* the review_failures that _run_reviewer returns
review_failures(l, targets) ==
  LET f == findings(l, targets)
  IN Flatten([i \in 1..Len(f) |-> f[i].failure])

\* the check lines of review-report.md
report_lines(l, targets) ==
  LET f == findings(l, targets)
  IN [i \in 1..Len(f) |-> f[i].line]

ReviewInit ==
  /\ Idle
  /\ Unused("rev")
  /\ rev \in {[NoReview EXCEPT !.dir = l, !.targets = t, !.step = "new"] :
                l \in Listings, t \in ReviewTargets}

\* one call of _run_reviewer with no earlier failure and no warning
RunReviewer ==
  /\ rev.step = "new"
  /\ rev' = IF review_raises(rev.dir, rev.targets)
              THEN [rev EXCEPT !.step = "raised"]
              ELSE [rev EXCEPT !.step = "reviewed",
                               !.failures = review_failures(rev.dir, rev.targets),
                               !.report = report_lines(rev.dir, rev.targets)]
  /\ UNCHANGED <<app_vars, prov, art, reqs, fn_vars>>

\* process_job lines 165-167: the status that the review failures give a
\* run without stage failure
Conclude ==
  /\ rev.step = "reviewed"
  /\ rev' = [rev EXCEPT !.step = "done",
                        !.status = final_status(rev.failures)]
  /\ UNCHANGED <<app_vars, prov, art, reqs, fn_vars>>

ReviewNext == RunReviewer \/ Conclude

ReviewSpec == ReviewInit /\ [][ReviewNext]_vars

----------------------------------------------------------------------------
(* The two image providers by themselves: one call of generate_assets of   *)
(* NanobananaProvider (svc "visual") or of ChartAssetService (svc          *)
(* "chart").  prov.at is the position of the call: "new" before it,        *)
(* "image" before the next image, "post" before an HTTP POST of a remote   *)
(* request, "get" before the GET of an image url, "done" after the         *)
(* return.  A file is "mock" (drawn locally in mock mode), "remote" (the   *)
(* bytes of the remote answer) or "fallback" (drawn locally after a        *)
(* failure).  posts counts the HTTP requests of the remote request of the  *)
(* current image, last is the latest answer, ended is how that request     *)
(* ended.                                                                  *)

\* nanobanana_provider.py:151, 165  _extract_key_messages returns at most
\* five messages (messages[:5], fallback[:5])
MaxMessages == 5

\* nanobanana_provider.py:226 and charting.py:196
attempts == 3

\* the statuses that are retried
RETRY_STATUS == {"429", "500", "502", "503", "504"}

\* the answers to a POST in the model: a 2xx answer with or without image
\* payload, an error status, or a transport error (timeout, connection)
Responses == {"image", "noimage", "429", "503", "404", "transport"}

\* a slide count without the lower and upper limit
slide_count_unclamped(key_messages) == key_messages + 2

\* nanobanana_provider.py:41
slide_count(key_messages) ==
  LET low == IF key_messages + 2 > 5 THEN key_messages + 2 ELSE 5
  IN IF low < 7 THEN low ELSE 7

\* a chart service that gives up the second chart
images_of_one_chart(svc, cards, thumb, key_messages) ==
  IF svc = "chart" THEN <<"charts/overview.png">>
  ELSE (IF cards THEN Take(SlidePaths, slide_count(key_messages)) ELSE <<>>)
       \o (IF thumb THEN <<"visuals/thumbnail.png">> ELSE <<>>)

\* the images one call has to write, in order
images_of(svc, cards, thumb, key_messages) ==
  IF svc = "chart" THEN ChartPaths
  ELSE (IF cards THEN Take(SlidePaths, slide_count(key_messages)) ELSE <<>>)
       \o (IF thumb THEN <<"visuals/thumbnail.png">> ELSE <<>>)

ProviderInit ==
  /\ Idle
  /\ Unused("prov")
  /\ prov \in
       {[NoProvider EXCEPT !.svc = "visual", !.mock = m, !.cards = c,
                           !.thumb = t, !.api = a, !.messages = k,
                           !.at = "new"] :
          m \in BOOLEAN, c \in BOOLEAN, t \in BOOLEAN,
          a \in {"unset", "gemini", "generic"}, k \in 0..MaxMessages}
       \cup
       {[NoProvider EXCEPT !.svc = "chart", !.mock = m, !.api = a,
                           !.at = "new"] :
          m \in BOOLEAN, a \in {"unset", "gemini", "generic"}}

\* generate_assets up to the first image: nanobanana_provider.py:29-38,
\* charting.py:29-54
Begin ==
  /\ prov.at = "new"
  /\ LET images == images_of(prov.svc, prov.cards, prov.thumb, prov.messages)
     IN prov' = [prov EXCEPT
                   !.dirs = IF prov.svc = "chart" THEN {"charts"}
                            ELSE {"visuals"}
                                 \cup (IF prov.cards THEN {"visuals/card-news"}
                                       ELSE {}),
                   !.slide_count = IF prov.svc = "visual" /\ prov.cards
                                     THEN slide_count(prov.messages) ELSE 0,
                   !.images = images,
                   !.idx = 1,
                   !.at = IF images = <<>> THEN "done" ELSE "image"]
  /\ UNCHANGED <<app_vars, rev, art, reqs, fn_vars>>

\* an image whose failed request ends the whole call
image_lost(p, kind, warned) ==
  IF warned THEN [p EXCEPT !.at = "done"]
  ELSE [p EXCEPT !.files[p.images[p.idx]] = kind,
                 !.paths = Append(@, p.images[p.idx]),
                 !.idx = @ + 1,
                 !.at = IF p.idx = Len(p.images) THEN "done" ELSE "image"]

\* the end of one image: the file is written, its path is appended, a
\* failure has added one warning; generate_assets returns after the last
image_written(p, kind, warned) ==
  [p EXCEPT !.files[p.images[p.idx]] = kind,
            !.paths = Append(@, p.images[p.idx]),
            !.warnings = IF warned THEN Append(@, p.images[p.idx]) ELSE @,
            !.idx = @ + 1,
            !.at = IF p.idx = Len(p.images) THEN "done" ELSE "image"]

\* _write_image / _generate_one_chart up to the remote request: the mock
\* branch draws locally, a missing url or key raises before any request
StartImage ==
  /\ prov.at = "image"
  /\ LET p == [prov EXCEPT !.attempt = 0, !.posts = 0, !.last = "none",
                           !.ended = "none"]
     IN prov' = IF prov.mock THEN image_written(p, "mock", FALSE)
                ELSE IF prov.api = "unset"
                  THEN image_written([p EXCEPT !.ended = "raised"],
                                     "fallback", TRUE)
                ELSE [p EXCEPT !.at = "post"]
  /\ UNCHANGED <<app_vars, rev, art, reqs, fn_vars>>

\* a loop that tries again after every error status
attempt_outcome_any_status(r, attempt) ==
  IF r = "transport" THEN (IF attempt < attempts - 1 THEN "retry" ELSE "raise")
  ELSE IF r \notin {"image", "noimage"} /\ attempt < attempts - 1 THEN "retry"
  ELSE IF r \notin {"image", "noimage"} THEN "raise"
  ELSE IF r = "noimage" THEN "raise"
  ELSE "return"

\* one pass of the loop of _request_image_from_gemini (lines 227-249) and
\* of _request_chart_image (lines 197-223) with answer r
attempt_outcome(r, attempt) ==
  IF r = "transport" THEN (IF attempt < attempts - 1 THEN "retry" ELSE "raise")
  ELSE IF r \in RETRY_STATUS /\ attempt < attempts - 1 THEN "retry"
  ELSE IF r \notin {"image", "noimage"} THEN "raise"
  ELSE IF r = "noimage" THEN "raise"
  ELSE "return"

\* the request goes through the loop with retries: every chart request and
\* the visual requests to a Gemini url
loops(p) == p.svc = "chart" \/ p.api = "gemini"

\* one POST of the loop and what follows it
Post ==
  /\ prov.at = "post" /\ loops(prov)
  /\ \E r \in Responses :
       LET o == attempt_outcome(r, prov.attempt)
           p == [prov EXCEPT !.posts = @ + 1, !.last = r]
       IN prov' = CASE o = "retry" -> [p EXCEPT !.attempt = @ + 1]
                    [] o = "return" ->
                         image_written([p EXCEPT !.ended = "returned"],
                                       "remote", FALSE)
                    [] o = "raise" ->
                         image_written([p EXCEPT !.ended = "raised"],
                                       "fallback", TRUE)
  /\ UNCHANGED <<app_vars, rev, art, reqs, fn_vars>>

\* _request_image lines 181-215 for another url: one POST without retry;
\* the answer may name a url that is fetched with one GET
PostOnce ==
  /\ prov.at = "post" /\ ~loops(prov)
  /\ \E r \in Responses \cup {"url"} :
       LET p == [prov EXCEPT !.posts = @ + 1, !.last = r]
       IN prov' = CASE r = "image" ->
                         image_written([p EXCEPT !.ended = "returned"],
                                       "remote", FALSE)
                    [] r = "url" -> [p EXCEPT !.at = "get"]
                    [] OTHER ->
                         image_written([p EXCEPT !.ended = "raised"],
                                       "fallback", TRUE)
  /\ UNCHANGED <<app_vars, rev, art, reqs, fn_vars>>

\* _request_image lines 210-214
GetOnce ==
  /\ prov.at = "get"
  /\ \E r \in Responses \ {"noimage"} :
       LET p == [prov EXCEPT !.posts = @ + 1, !.last = r]
       IN prov' = IF r = "image"
                    THEN image_written([p EXCEPT !.ended = "returned"],
                                       "remote", FALSE)
                    ELSE image_written([p EXCEPT !.ended = "raised"],
                                       "fallback", TRUE)
  /\ UNCHANGED <<app_vars, rev, art, reqs, fn_vars>>

ProviderNext == Begin \/ StartImage \/ Post \/ PostOnce \/ GetOnce

ProviderSpec == ProviderInit /\ [][ProviderNext]_vars

\* the thread that runs the call goes on: every request ends (the client
\* has a timeout) and every backoff sleep is bounded
ProviderLive == ProviderSpec /\ WF_vars(ProviderNext)

----------------------------------------------------------------------------
(* download_artifact by itself.  A path is the sequence of its names from  *)
(* the file system root.  The file system holds the output directories of  *)
(* two jobs, a file next to them, a file outside the output root, and a    *)
(* symbolic link inside the first job's directory to that outside file.    *)
(* art is one GET /jobs/{job_id}/artifacts/{artifact_path}: the path       *)
(* parameter is a sequence of segments, absolute when it starts with "/".  *)

\* most segments of an artifact_path
MaxSegments == 3

\* settings.output_root_path
OutputRoot == <<"out">>

\* the jobs that have a record; "j3" has none
Records == {"j1", "j2"}

RegularFiles ==
  { <<"out", "j1", "blog.md">>,
    <<"out", "j1", "notes.txt">>,
    <<"out", "j1", "REPORT.MD">>,
    <<"out", "j1", "visuals", "thumbnail.png">>,
    <<"out", "j2", "blog.md">>,
    <<"out", "app.json">>,
    <<"secret.md">> }

\* symbolic links and what they point at
Links == [p \in {<<"out", "j1", "link.md">>} |-> <<"secret.md">>]

\* the segments of the artifact paths in the model
Segments ==
  {"..", ".", "blog.md", "notes.txt", "REPORT.MD", "visuals", "thumbnail.png",
   "link.md", "j2", "out", "secret.md", "app.json"}

\* routes_jobs.py:24
ALLOWED_EXTENSIONS == {".md", ".png", ".jpg", ".jpeg", ".mp4", ".json"}

\* Path.suffix.lower() of the names in the model
suffix_lower(name) ==
  CASE name \in {"blog.md", "REPORT.MD", "link.md", "secret.md"} -> ".md"
    [] name = "thumbnail.png" -> ".png"
    [] name = "app.json" -> ".json"
    [] name = "notes.txt" -> ".txt"
    [] OTHER -> ""

\* Path.resolve: "." is dropped, ".." goes to the parent (the root is its
\* own parent), a symbolic link is replaced by what it points at
RECURSIVE resolve_from(_, _)
resolve_from(at, rest) ==
  IF rest = <<>> THEN at
  ELSE LET seg == Head(rest)
           next == Append(at, seg)
       IN IF seg = "." THEN resolve_from(at, Tail(rest))
          ELSE IF seg = ".."
            THEN resolve_from(IF at = <<>> THEN at ELSE Take(at, Len(at) - 1),
                              Tail(rest))
          ELSE IF next \in DOMAIN Links THEN resolve_from(Links[next], Tail(rest))
          ELSE resolve_from(next, Tail(rest))

\* (base / path).resolve(); joining an absolute path drops the base
resolve(base, absolute, path) ==
  resolve_from(IF absolute THEN <<>> ELSE base, path)

\* Path.parents
parents(path) == {Take(path, n) : n \in 0..(Len(path) - 1)}

\* Path.is_file of a resolved path
is_file(path) == path \in RegularFiles

\* a containment check against the output root instead of the job's directory
contained_in_output_root(job_root, candidate) ==
  OutputRoot \in parents(candidate) \/ candidate = OutputRoot

\* routes_jobs.py:143: the negation of the condition that answers 400
contained(job_root, candidate) ==
  job_root \in parents(candidate) \/ candidate = job_root

\* the answer of _resolve_artifact_path: HTTP status and the served path
_resolve_artifact_path(job_id, absolute, artifact_path) ==
  LET job_root == resolve(OutputRoot, FALSE, <<job_id>>)
      candidate == resolve(job_root, absolute, artifact_path)
  IN IF ~is_file(candidate) THEN [code |-> 404, served |-> <<>>]
     ELSE IF ~contained(job_root, candidate) THEN [code |-> 400, served |-> <<>>]
     ELSE IF suffix_lower(candidate[Len(candidate)]) \notin ALLOWED_EXTENSIONS
       THEN [code |-> 400, served |-> <<>>]
     ELSE [code |-> 200, served |-> candidate]

PathInit ==
  /\ Idle
  /\ Unused("art")
  /\ art \in {[NoDownload EXCEPT !.job = j, !.absolute = a, !.path = q,
                                 !.step = "new"] :
                j \in Records \cup {"j3"}, a \in BOOLEAN,
                q \in UNION {[1..n -> Segments] : n \in 0..MaxSegments}}

\* routes_jobs.py:88-99
download_artifact ==
  /\ art.step = "new"
  /\ LET answer == IF art.job \notin Records
                     THEN [code |-> 404, served |-> <<>>]
                     ELSE _resolve_artifact_path(art.job, art.absolute, art.path)
     IN art' = [art EXCEPT !.step = "answered", !.code = answer.code,
                           !.served = answer.served]
  /\ UNCHANGED <<app_vars, rev, prov, reqs, fn_vars>>

PathNext == download_artifact

PathSpec == PathInit /\ [][PathNext]_vars

----------------------------------------------------------------------------
(* One call of TextAgentService.generate_text_assets (services/agents.py). *)
(* Every selected target is a task in the thread pool; a task writes its   *)
(* files one after the other and its future completes when it returns or   *)
(* raises; the caller handles the futures in the order they complete.  A   *)
(* file is the pair of its target and its number.                          *)

\* longest target list given to generate_text_assets in TextSpec
MaxTextTargets == 3

\* the targets of TextSpec in a fixed order, one of them no text target
TextInputs ==
  <<"newsletter", "blog", "linkedin", "threads", "youtube-script",
    "shorts-scripts", "chart">>

\* agents.py:171 range(10), :194 range(3), one write_text for the others
file_count(target) ==
  CASE target = "threads"        -> 10
    [] target = "shorts-scripts" -> 3
    [] OTHER                     -> 1

\* the list _generate_target returns for a target
generated(target) == [i \in 1..file_count(target) |-> <<target, i>>]

\* target lists of TextSpec: the sublists of TextInputs
TextLists ==
  {l \in UNION {[1..n -> DOMAIN TextInputs] : n \in 0..MaxTextTargets} :
     \A i \in 1..(Len(l) - 1) : l[i] < l[i + 1]}

TextInit ==
  /\ Idle /\ Unused("text")
  /\ \E l \in TextLists :
       text = [NoText EXCEPT !.step = "start",
                             !.targets = [i \in 1..Len(l) |-> TextInputs[l[i]]]]

text_others == <<app_vars, rev, prov, art, reqs, single, brief, msgs>>

\* agents.py:41-59: no task without a text target; load_prompt_map may
\* raise before any task is submitted; otherwise the two directories are
\* made and one task per selected target is submitted
generate_text_assets ==
  /\ text.step = "start"
  /\ LET sel == selected_targets(text.targets)
     IN IF sel = <<>>
          THEN text' = [text EXCEPT !.step = "returned"]
          ELSE \/ text' = [text EXCEPT !.step = "raised"]
               \/ text' = [text EXCEPT
                     !.step = "running",
                     !.dirs = {"threads", "shorts-scripts"},
                     !.tasks = [i \in 1..Len(sel) |->
                                  [target |-> sel[i], state |-> "running",
                                   written |-> 0]]]
  /\ UNCHANGED text_others

\* _generate_target: the next file of a task is written, and the task
\* returns after its last one; or the generation or the write raises
_generate_target(k) ==
  /\ text.step = "running"
  /\ k \in DOMAIN text.tasks
  /\ text.tasks[k].state = "running"
  /\ LET task == text.tasks[k]
         n == task.written + 1
     IN \/ text' = [text EXCEPT
               !.files = @ \cup {<<task.target, n>>},
               !.tasks[k].written = n,
               !.tasks[k].state = IF n = file_count(task.target) THEN "done"
                                  ELSE "running",
               !.finished = IF n = file_count(task.target) THEN Append(@, k)
                            ELSE @]
        \/ text' = [text EXCEPT !.tasks[k].state = "raised",
                                !.finished = Append(@, k)]
  /\ UNCHANGED text_others

\* a loop that ends with the first failure
all_handled_or_failed(tx) ==
  tx.collected = Len(tx.tasks) \/ tx.failures # <<>>

\* agents.py:65 the as_completed loop has yielded every future
all_handled(tx) == tx.collected = Len(tx.tasks)

\* agents.py:65-71: the next completed future is handled
as_completed ==
  /\ text.step = "running"
  /\ ~all_handled(text)
  /\ text.collected < Len(text.finished)
  /\ LET k == text.finished[text.collected + 1]
         task == text.tasks[k]
     IN text' = [text EXCEPT
          !.collected = @ + 1,
          !.artifacts = IF task.state = "done" THEN @ \o generated(task.target)
                        ELSE @,
          !.failures = IF task.state = "raised"
                         THEN @ \o text_failures(<<task.target>>)
                         ELSE @]
  /\ UNCHANGED text_others

\* agents.py:72 return artifacts, failures
text_return ==
  /\ text.step = "running"
  /\ all_handled(text)
  /\ text' = [text EXCEPT !.step = "returned"]
  /\ UNCHANGED text_others

TextNext ==
  \/ generate_text_assets
  \/ \E k \in 1..MaxTextTargets : _generate_target(k)
  \/ as_completed
  \/ text_return

TextSpec == TextInit /\ [][TextNext]_vars

----------------------------------------------------------------------------
(* TextAgentService._generate_single_text (services/agents.py) applied to  *)
(* the two providers of the service, each with its availability and with   *)
(* what its generate call would do.                                        *)

\* agents.py:26-29: the provider list of the service, in its order
ProviderNames == <<"openai", "anthropic">>

\* what a generate call can do: raise, or return a text, a text with blanks
\* around it, blanks only, or nothing
Answers == {"raise", "text", " text ", "  ", ""}

\* str.strip on the texts of the model
strip(v) ==
  CASE v = " text " -> "text"
    [] v = " ai "   -> "ai"
    [] v = " r "    -> "r"
    [] v = "  "     -> ""
    [] OTHER        -> v

SingleInit ==
  /\ Idle /\ Unused("single")
  /\ \E mock \in BOOLEAN,
        avail \in [DOMAIN ProviderNames -> BOOLEAN],
        ans \in [DOMAIN ProviderNames -> Answers] :
       single = [NoSingle EXCEPT
         !.step = "start",
         !.mock_mode = mock,
         !.providers = [i \in DOMAIN ProviderNames |->
                          [name |-> ProviderNames[i], available |-> avail[i],
                           answer |-> ans[i]]]]

single_others == <<app_vars, rev, prov, art, reqs, text, brief, msgs>>

\* agents._mock_text
_mock_text == [by |-> "mock", text |-> "mock text"]

\* agents.py:228-229 and 231-249
single_enter ==
  /\ single.step = "start"
  /\ single' = IF single.mock_mode
                 THEN [single EXCEPT !.step = "returned", !.result = _mock_text]
                 ELSE [single EXCEPT !.step = "loop", !.idx = 1]
  /\ UNCHANGED single_others

\* a loop body without the except clause
provider_outcome_uncaught(p) ==
  IF ~p.available THEN "continue"
  ELSE IF p.answer = "raise" THEN "raise"
  ELSE IF strip(p.answer) # "" THEN "return"
  ELSE "next"

\* agents.py:250-258, the body of the for loop for one provider
provider_outcome(p) ==
  IF ~p.available THEN "continue"
  ELSE IF p.answer = "raise" THEN "continue"
  ELSE IF strip(p.answer) # "" THEN "return"
  ELSE "next"

\* agents.py:250-258
single_consult ==
  /\ single.step = "loop"
  /\ single.idx <= Len(single.providers)
  /\ LET p == single.providers[single.idx]
         out == provider_outcome(p)
         called == IF p.available THEN Append(single.calls, p.name)
                   ELSE single.calls
     IN single' =
          CASE out = "return" ->
                 [single EXCEPT !.step = "returned", !.calls = called,
                                !.result = [by |-> p.name, text |-> strip(p.answer)]]
            [] out = "raise" ->
                 [single EXCEPT !.step = "raised", !.calls = called]
            [] OTHER ->
                 [single EXCEPT !.idx = @ + 1, !.calls = called]
  /\ UNCHANGED single_others

\* agents.py:259: the loop ran out of providers
single_fallback ==
  /\ single.step = "loop"
  /\ single.idx > Len(single.providers)
  /\ single' = [single EXCEPT !.step = "returned", !.result = _mock_text]
  /\ UNCHANGED single_others

SingleNext == single_enter \/ single_consult \/ single_fallback

SingleSpec == SingleInit /\ [][SingleNext]_vars

----------------------------------------------------------------------------
(* JobOrchestrator._resolve_brief_ai_variables (services/orchestrator.py)  *)
(* applied to the variable configurations of the brief template.  A        *)
(* configuration holds the name of the variable, its value_type, its       *)
(* default_value and the value the runtime resolution has given it.        *)

\* longest list of variable configurations in BriefSpec
MaxConfigs == 3

\* the configurations of the model: two AI-generated variables (one with
\* its value_type in lower case and blanks), a runtime variable and an
\* AI-generated one whose name is blank
ConfigKinds ==
  {[name |-> "summary", value_type |-> "AI_GENERATED", default_value |-> d,
    resolved |-> r] : d \in {"", "d"}, r \in {"", "  ", " r "}}
  \cup
  {[name |-> "hook", value_type |-> " ai_generated ", default_value |-> "d",
    resolved |-> r] : r \in {"", "r"}}
  \cup
  {[name |-> "title", value_type |-> "RUNTIME", default_value |-> "d",
    resolved |-> "r"],
   [name |-> "  ", value_type |-> "AI_GENERATED", default_value |-> "d",
    resolved |-> ""]}

\* the variable names in the order the configuration lists keep
ConfigOrder(name) ==
  CASE name = "summary" -> 1 [] name = "hook" -> 2 [] name = "title" -> 3
    [] OTHER -> 4

ConfigLists ==
  {l \in UNION {[1..n -> ConfigKinds] : n \in 0..MaxConfigs} :
     \A i \in 1..(Len(l) - 1) : ConfigOrder(l[i].name) < ConfigOrder(l[i + 1].name)}

\* what provider.generate can do: raise, or return blanks, a JSON object,
\* a JSON value that is no object (alone, or a list holding an object), or
\* text that is no JSON (without braces, with one object inside, or with
\* braces around something that is no JSON)
RawAnswers ==
  {"raise", "blank", "object", "scalar", "list", "prose", "fenced", "broken"}

\* what the parsed object can hold under a name: nothing, a value that is
\* no string, or a string
Candidates == {"absent", "number", "  ", " ai "}

\* str(item.get("value_type", "")).strip().upper() == "AI_GENERATED"
is_ai_generated(item) ==
  item.value_type \in {"AI_GENERATED", " ai_generated ", "ai_generated"}

\* orchestrator.py:228-232
ai_variables(configs) == SelectSeq(configs, is_ai_generated)

\* orchestrator.py:236-243: the fallback dict, as a function on the names
fallback_of(configs) ==
  LET named == SelectSeq(ai_variables(configs), LAMBDA c : strip(c.name) # "")
  IN [n \in {strip(named[i].name) : i \in DOMAIN named} |->
        LET c == CHOOSE c \in Range(named) : strip(c.name) = n
        IN IF strip(c.resolved) # "" THEN strip(c.resolved)
           ELSE strip(c.default_value)]

\* orchestrator.py:249: the first provider that is available, 0 for None
first_available(available) ==
  IF \E i \in DOMAIN available : available[i]
    THEN CHOOSE i \in DOMAIN available :
           available[i] /\ \A j \in DOMAIN available : available[j] => i <= j
    ELSE 0

\* json.loads of the whole answer: a dict, another value, or an error
json_loads(raw) ==
  CASE raw = "object"             -> "dict"
    [] raw \in {"scalar", "list"} -> "other"
    [] OTHER                      -> "error"

\* json.loads of what re.search(r"\{[\s\S]*\}") finds, "none" without match
json_loads_braces(raw) ==
  CASE raw \in {"object", "list", "fenced"} -> "dict"
    [] raw = "broken"                        -> "error"
    [] OTHER                                 -> "none"

\* orchestrator._parse_json_object: whether it returns a dict
_parse_json_object(raw) ==
  IF raw = "blank" THEN FALSE
  ELSE IF json_loads(raw) = "dict" THEN TRUE
  ELSE json_loads_braces(raw) = "dict"

\* a merge that takes every string, blank ones too
candidate_taken_if_string(c) == c \in {"  ", " ai "}

\* orchestrator.py:309: isinstance(candidate, str) and candidate.strip()
candidate_taken(c) == c \in {"  ", " ai "} /\ strip(c) # ""

BriefInit ==
  /\ Idle /\ Unused("brief")
  /\ \E l \in ConfigLists, mock \in BOOLEAN, avail \in [1..2 -> BOOLEAN] :
       brief = [NoBrief EXCEPT !.step = "start", !.configs = l,
                               !.mock_mode = mock, !.available = avail]

brief_others == <<app_vars, rev, prov, art, reqs, text, single, msgs>>

\* orchestrator.py:228-270: the returns before the provider is called
brief_begin ==
  /\ brief.step = "start"
  /\ LET fallback == fallback_of(brief.configs)
         provider == first_available(brief.available)
     IN brief' =
          IF ai_variables(brief.configs) = <<>> \/ DOMAIN fallback = {}
            THEN [brief EXCEPT !.step = "returned", !.result = <<>>]
          ELSE IF brief.mock_mode \/ provider = 0
            THEN [brief EXCEPT !.step = "returned", !.result = fallback]
          ELSE [brief EXCEPT !.step = "ask", !.asked = provider]
  /\ UNCHANGED brief_others

\* orchestrator.py:302-314: the provider call, the parse and the merge
brief_generate ==
  /\ brief.step = "ask"
  /\ \E raw \in RawAnswers,
        parsed \in [{"summary", "hook", "other"} -> Candidates] :
       LET fallback == fallback_of(brief.configs)
       IN /\ (~_parse_json_object(raw) \/ raw = "raise")
               => (parsed = [n \in {"summary", "hook", "other"} |-> "absent"])
          /\ brief' = [brief EXCEPT
                !.step = "returned",
                !.raw = raw,
                !.parsed = parsed,
                !.result =
                  IF raw = "raise" \/ ~_parse_json_object(raw) THEN fallback
                  ELSE [n \in DOMAIN fallback |->
                          IF candidate_taken(parsed[n]) THEN strip(parsed[n])
                          ELSE fallback[n]]]
  /\ UNCHANGED brief_others

BriefNext == brief_begin \/ brief_generate

BriefSpec == BriefInit /\ [][BriefNext]_vars

----------------------------------------------------------------------------
(* orchestrator._extract_key_messages applied to source texts.  A text is  *)
(* a list of sentences; a sentence is given by what the code looks at: its *)
(* wording, its wording in lower case (key), its first 120 characters cut  *)
(* at a word boundary (head), its length, whether it holds a digit, how    *)
(* many priority terms and title keywords it holds, whether it looks like  *)
(* an instruction and whether it matches a meta pattern.                   *)

\* longest text, in sentences, given to _extract_key_messages in KeySpec
MaxSentences == 4

\* the values of count in KeySpec; _build_brief asks for 5
Counts == {1, 2, 3, 5}

Sentence(wording, key, head, length, priority, meta) ==
  [wording |-> wording, key |-> key, head |-> head, len |-> length,
   digit |-> FALSE, priority |-> priority, title |-> 0,
   instruction |-> FALSE, meta |-> meta]

\* the sentences of the model: two long ones that differ only after their
\* first 120 characters, a plain one, the same in capitals, one like the
\* plain one with two priority terms, one too short to score, and one that
\* holds the word prompt
Sentences ==
  {Sentence("long-a", "long-a", "long", 150, 0, FALSE),
   Sentence("long-b", "long-b", "long", 190, 0, FALSE),
   Sentence("plain", "plain", "plain", 60, 0, FALSE),
   Sentence("PLAIN", "plain", "PLAIN", 60, 0, FALSE),
   Sentence("priority", "priority", "priority", 60, 2, FALSE),
   Sentence("weak", "weak", "weak", 20, 0, FALSE),
   Sentence("prompt", "prompt", "prompt", 60, 0, TRUE)}

\* the placeholder of orchestrator.py:541
Placeholder == [wording |-> "placeholder", cut |-> FALSE]

\* orchestrator._is_meta_candidate
_is_meta_candidate(c) == c.meta

\* orchestrator._clean_candidate: whether the chunk is kept
_clean_candidate(c) == c.len >= 18 /\ ~_is_meta_candidate(c)

\* orchestrator._collect_candidates: the cleaned chunks, the first of those
\* that are equal in lower case
RECURSIVE _collect_candidates(_)
_collect_candidates(chunks) ==
  IF chunks = <<>> THEN <<>>
  ELSE LET front == _collect_candidates(SubSeq(chunks, 1, Len(chunks) - 1))
           last == chunks[Len(chunks)]
       IN IF _clean_candidate(last)
             /\ \A i \in DOMAIN front : front[i].key # last.key
            THEN Append(front, last) ELSE front

\* orchestrator._score_candidate
_score_candidate(c) ==
  IF _is_meta_candidate(c) THEN -100
  ELSE (IF c.len < 90 THEN c.len ELSE 90)
       + (IF c.digit THEN 16 ELSE 0)
       + (IF c.priority * 10 < 40 THEN c.priority * 10 ELSE 40)
       + (IF c.title * 14 < 42 THEN c.title * 14 ELSE 42)
       - (IF c.len < 30 THEN 20 ELSE 0)
       - (IF c.len > 180 THEN 15 ELSE 0)
       - (IF c.instruction THEN 45 ELSE 0)

\* orchestrator.py:510-516: the positions of the candidates with a score
\* above 0, by falling score and then by position
RECURSIVE sorted_by_score(_, _)
sorted_by_score(cands, left) ==
  IF left = {} THEN <<>>
  ELSE LET best == CHOOSE i \in left : \A j \in left :
                     \/ _score_candidate(cands[i]) > _score_candidate(cands[j])
                     \/ /\ _score_candidate(cands[i]) = _score_candidate(cands[j])
                        /\ i <= j
       IN <<best>> \o sorted_by_score(cands, left \ {best})

\* textwrap.shorten(candidate, width=120, placeholder="...")
shorten(c) ==
  IF c.len > 120 THEN [wording |-> c.head, cut |-> TRUE]
  ELSE [wording |-> c.wording, cut |-> FALSE]

\* the candidates at the positions order, those with a key already used
\* left out, until limit candidates are picked in all
RECURSIVE pick(_, _, _, _)
pick(cands, order, picked, limit) ==
  IF order = <<>> \/ Len(picked) >= limit THEN picked
  ELSE LET c == cands[Head(order)]
       IN IF \E i \in DOMAIN picked : picked[i].key = c.key
            THEN pick(cands, Tail(order), picked, limit)
            ELSE pick(cands, Tail(order), Append(picked, c), limit)

KeyInit ==
  /\ Idle /\ Unused("msgs")
  /\ \E l \in UNION {[1..n -> Sentences] : n \in 0..MaxSentences},
        count \in Counts :
       msgs = [NoMessages EXCEPT !.step = "start", !.text = l, !.count = count]

key_others == <<app_vars, rev, prov, art, reqs, text, single, brief>>

\* orchestrator.py:507
key_collect ==
  /\ msgs.step = "start"
  /\ msgs' = [msgs EXCEPT !.step = "collected",
                          !.candidates = _collect_candidates(msgs.text)]
  /\ UNCHANGED key_others

\* orchestrator.py:508-527
key_select ==
  /\ msgs.step = "collected"
  /\ LET cands == msgs.candidates
         order == sorted_by_score(cands,
                    {i \in DOMAIN cands : _score_candidate(cands[i]) > 0})
         picked == pick(cands, order, <<>>, msgs.count)
     IN msgs' = [msgs EXCEPT !.step = "scored",
                            !.picked = picked,
                            !.scored = Len(picked),
                            !.selected = [i \in DOMAIN picked |-> shorten(picked[i])]]
  /\ UNCHANGED key_others

\* orchestrator.py:529  len(selected) < min(count, 3)
backfill_wanted(n, count) == n < (IF count < 3 THEN count ELSE 3)

\* orchestrator.py:529-542
key_backfill ==
  /\ msgs.step = "scored"
  /\ LET cands == msgs.candidates
         rest == SelectSeq([i \in DOMAIN cands |-> i],
                           LAMBDA i : ~_is_meta_candidate(cands[i]))
         picked == IF backfill_wanted(Len(msgs.picked), msgs.count)
                     THEN pick(cands, rest, msgs.picked, msgs.count)
                     ELSE msgs.picked
     IN msgs' = [msgs EXCEPT
          !.step = "returned",
          !.picked = picked,
          !.selected = IF picked = <<>> THEN <<Placeholder>>
                       ELSE [i \in DOMAIN picked |-> shorten(picked[i])]]
  /\ UNCHANGED key_others

KeyNext == key_collect \/ key_select \/ key_backfill

KeySpec == KeyInit /\ [][KeyNext]_vars

----------------------------------------------------------------------------
(* JobQueue by itself (workers/queue.py).  workers is the list of the      *)
(* threads start has created, jq the fields of the JobQueue object.  A     *)
(* thread running _run is at "check" (the while test of line 33), "wait"   *)
(* (inside get, line 35) or "call" (inside the processor, line 40); it     *)
(* ends "exited" (the loop was left) or "crashed" (an exception left       *)
(* _run).  item is the id it took last, late the number of ids it took     *)
(* while the stop signal was set.                                          *)

NewThread == [state |-> "check", item |-> 0, late |-> 0]

\* a thread test that takes a thread inside the processor for dead
is_alive_when_idle(th) == th.state \in {"check", "wait"}

\* threading.Thread.is_alive of a thread running _run
is_alive(th) == th.state \in {"check", "wait", "call"}

\* a start that never finds a worker
start_returns_early_never(ws, w) == FALSE

\* queue.py:17  if self._worker and self._worker.is_alive(): return
start_returns_early(ws, w) == w # 0 /\ is_alive(ws[w])

\* queue.py:16-22
start(p) ==
  /\ IF start_returns_early(workers, jq._worker)
       THEN UNCHANGED <<workers, jq>>
       ELSE /\ Len(workers) < MaxThreads
            /\ workers' = Append(workers, NewThread)
            /\ jq' = [_worker     |-> Len(workers) + 1,
                      _stop_event |-> FALSE,
                      _processor  |-> p]
  /\ qlog' = [qlog EXCEPT !.op = "start", !.proc = p, !.tick = ~@]
  /\ UNCHANGED <<queue, pipeline_vars, norm>>

\* queue.py:24-27: the join waits for at most two seconds and changes nothing
stop ==
  /\ jq' = [jq EXCEPT !._stop_event = TRUE]
  /\ qlog' = [qlog EXCEPT !.op = "stop", !.tick = ~@]
  /\ UNCHANGED <<workers, queue, pipeline_vars, norm>>

\* queue.py:29-30
enqueue(id) ==
  /\ Len(qlog.enqueued) < MaxEnqueue
  /\ queue' = put(queue, id)
  /\ qlog' = [qlog EXCEPT !.enqueued = Append(@, id), !.op = "enqueue",
                          !.tick = ~@]
  /\ UNCHANGED <<workers, jq, pipeline_vars, norm>>

\* a loop test that ignores the stop signal
should_exit_never(ev) == FALSE

\* queue.py:33  while not self._stop_event.is_set()
should_exit(ev) == ev

\* the while test of line 33
_run_check(t) ==
  /\ t \in DOMAIN workers
  /\ workers[t].state = "check"
  /\ workers' = [workers EXCEPT ![t].state =
                   IF should_exit(jq._stop_event) THEN "exited" ELSE "wait"]
  /\ UNCHANGED <<queue, jq, qlog, pipeline_vars, norm>>

\* queue.py:35 and 38-40: get returns the oldest id and the processor is
\* called with it
_run_get(t) ==
  /\ t \in DOMAIN workers
  /\ workers[t].state = "wait"
  /\ queue # <<>>
  /\ queue' = Tail(queue)
  /\ workers' = [workers EXCEPT ![t] =
                   [state |-> IF jq._processor # "None" THEN "call" ELSE "check",
                    item  |-> Head(queue),
                    late  |-> @.late + (IF jq._stop_event THEN 1 ELSE 0)]]
  /\ qlog' = IF jq._processor # "None"
               THEN [qlog EXCEPT !.handed = Append(@, Head(queue))]
               ELSE qlog
  /\ UNCHANGED <<jq, pipeline_vars, norm>>

\* queue.py:36-37: get timed out on the empty queue
_run_empty(t) ==
  /\ t \in DOMAIN workers
  /\ workers[t].state = "wait"
  /\ queue = <<>>
  /\ workers' = [workers EXCEPT ![t].state = "check"]
  /\ UNCHANGED <<queue, jq, qlog, pipeline_vars, norm>>

\* queue.py:40-42: the processor returned, task_done, back to the while test
processor_returns(t) ==
  /\ t \in DOMAIN workers
  /\ workers[t].state = "call"
  /\ workers' = [workers EXCEPT ![t].state = "check"]
  /\ UNCHANGED <<queue, jq, qlog, pipeline_vars, norm>>

\* queue.py:38-42: the processor raised; the finally clause runs task_done
\* and, there being no except clause, the exception leaves _run and ends
\* the thread
processor_raises(t) ==
  /\ t \in DOMAIN workers
  /\ workers[t].state = "call"
  /\ workers' = [workers EXCEPT ![t].state = "crashed"]
  /\ UNCHANGED <<queue, jq, qlog, pipeline_vars, norm>>

_run(t) ==
  \/ _run_check(t)
  \/ _run_get(t)
  \/ _run_empty(t)
  \/ processor_returns(t)
  \/ processor_raises(t)

QueueCalls ==
  \/ \E p \in Processors : start(p)
  \/ stop
  \/ \E id \in QueueIds : enqueue(id)

QueueThreads == \E t \in 1..MaxThreads : _run(t)

QueueNext == QueueCalls \/ QueueThreads

QueueSpec == Init /\ [][QueueNext]_vars

\* every thread goes on running: a poll times out after poll_seconds and a
\* processor call comes to an end
QueueLive ==
  QueueSpec /\ \A t \in 1..MaxThreads : WF_vars(_run(t))

----------------------------------------------------------------------------
(* Properties *)

Created == DOMAIN jobs

\* the worker is inside process_job for job id
Running(id) == cur = id /\ pc \in {"start", "get", "chk", "upd", "run", "final"}

\* the step is the worker leaving the checkpoint of the current stage
CheckpointStep == pc = "chk" /\ pc' # "chk" /\ cur \in Created

\* the step is a call of retry_job
RetryStep == resp'.tick # resp.tick /\ resp'.op = "retry"

\* C1: whenever cancel_job has accepted a cancel request for a PENDING or
\* RUNNING job (cancel_requested is set), the run of that job ends with
\* status CANCELED and an empty error_message.  Stated on the end of the run:
\* a job that has reached a terminal status with the flag set is CANCELED
\* and carries no error message.
C1_CancelAlwaysCanceled ==
  \A id \in Created :
    (jobs[id].cancel_requested /\ jobs[id].status \in TERMINAL)
      => (jobs[id].status = "CANCELED" /\ jobs[id].error_message = <<>>)

\* C2: at the checkpoint before each stage the worker reads cancel_requested
\* from the stored record; if it is set it persists status CANCELED,
\* current_stage DONE, progress 100 and finished_at, leaves error_message
\* alone (empty) and returns; if it is not set it writes nothing.  Status
\* CANCELED is written by no other step, no generator runs before its
\* stage's checkpoint has been passed, and none runs once the job is
\* CANCELED.
C2_CancelOnlyAtCheckpoints ==
  /\ [](\A id \in Created : hist[id].invoked \subseteq hist[id].checked)
  /\ [][(CheckpointStep /\ jobs[cur].cancel_requested)
          => (/\ jobs' = [jobs EXCEPT ![cur].status        = "CANCELED",
                                      ![cur].current_stage = "DONE",
                                      ![cur].progress      = 100,
                                      ![cur].finished_at   = TRUE]
              /\ jobs'[cur].error_message = <<>>
              /\ pc' = "idle")]_vars
  /\ [][(CheckpointStep /\ ~jobs[cur].cancel_requested)
          => (jobs' = jobs /\ pc' \in {"run", "upd"})]_vars
  /\ [][\A id \in Created :
          /\ (jobs'[id].status = "CANCELED" /\ jobs[id].status # "CANCELED")
               => (CheckpointStep /\ cur = id /\ jobs[id].cancel_requested)
          /\ (jobs[id].status = "CANCELED")
               => (hist'[id].invoked = hist[id].invoked
                   /\ jobs'[id] = jobs[id])]_vars

\* a run cancelled in mid-course: the text stage had run when a later
\* checkpoint found the flag
C2_Witness ==
  \E id \in Created :
    /\ jobs[id].status = "CANCELED"
    /\ hist[id].observed
    /\ "TEXT_AGENTS" \in hist[id].invoked
    /\ "REVIEW" \notin hist[id].invoked

\* C3: within one run the persisted progress never decreases (it goes back
\* to 0 only in retry_job, which starts a new run), and progress 100 occurs
\* only together with a terminal status.
C3_ProgressMonotone ==
  /\ [](\A id \in Created :
          (jobs[id].progress = 100) => (jobs[id].status \in TERMINAL))
  /\ [][\A id \in Created :
          (jobs'[id].progress < jobs[id].progress) => RetryStep]_vars

\* a run that went through every stage and ended at progress 100
C3_Witness ==
  \E id \in Created :
    /\ jobs[id].progress = 100
    /\ jobs[id].status = "PARTIAL_SUCCESS"
    /\ "REVIEW" \in hist[id].invoked

\* the run recorded in hist[id] is the job's latest one: retry_job has not
\* put the job back to PENDING since
LatestRun(id) == jobs[id].status # "PENDING"

HARD == {"INGESTION", "PLANNER"}

\* the stages up to and including s
UpTo(s) == {Stages[i] : i \in {j \in 1..Len(Stages) : \A k \in 1..j : Stages[k] # s \/ k = j}}

\* C4: if INGESTION or PLANNER raises, the job ends FAILED with
\* current_stage DONE, progress 100, finished_at set and an error_message
\* that is the one entry tagged with the failing stage, and no generator
\* after the failing stage has been invoked in that run.
C4_HardFailure ==
  \A id \in Created : \A s \in HARD :
    (LatestRun(id) /\ s \in hist[id].raised)
      => /\ jobs[id].status = "FAILED"
         /\ jobs[id].current_stage = "DONE"
         /\ jobs[id].progress = 100
         /\ jobs[id].finished_at
         /\ jobs[id].error_message = << <<"stage", s>> >>
         /\ hist[id].invoked = UpTo(s)
         /\ hist[id].reviews = 0
         /\ ~Running(id)

\* a planner failure after a successful ingestion
C4_Witness ==
  \E id \in Created :
    /\ "PLANNER" \in hist[id].raised
    /\ jobs[id].status = "FAILED"
    /\ "INGESTION" \in hist[id].invoked

\* what raised in the soft stages of the run: stage names and text targets
SoftRaised(id) == hist[id].raised \ (HARD \cup {"REVIEW"})

\* C5: an exception of TEXT_AGENTS, VISUAL, CHART or SHORTS (or of one text
\* target) never makes the job FAILED: it is in the accumulated failures
\* while the run goes on and in error_message at its end, a run that is not
\* cancelled still reaches REVIEW, and the run ends PARTIAL_SUCCESS or
\* CANCELED.  FAILED occurs only with an INGESTION or PLANNER exception.
C5_SoftFailureIsolated ==
  \A id \in Created :
    LatestRun(id) =>
      /\ (jobs[id].status = "FAILED") => (hist[id].raised \cap HARD # {})
      /\ (SoftRaised(id) # {}) =>
           /\ jobs[id].status \in {"RUNNING", "PARTIAL_SUCCESS", "CANCELED"}
           /\ Running(id) =>
                \A e \in SoftRaised(id) : \E i \in 1..Len(failures) : failures[i][2] = e
           /\ (jobs[id].status = "PARTIAL_SUCCESS") =>
                /\ \A e \in SoftRaised(id) :
                     \E i \in 1..Len(jobs[id].error_message) :
                       jobs[id].error_message[i][2] = e
                /\ "REVIEW" \in hist[id].invoked
           /\ (jobs[id].status = "CANCELED") => hist[id].observed

\* a run in which the visual stage raised and which then went on through
\* the chart stage and the review
C5_Witness ==
  \E id \in Created :
    /\ "VISUAL" \in hist[id].raised
    /\ "CHART" \in hist[id].invoked
    /\ "REVIEW" \in hist[id].invoked
    /\ jobs[id].status = "PARTIAL_SUCCESS"

\* the entries of an error message that the stages added
StageEntries(msg) == SelectSeq(msg, LAMBDA e : e[1] \in {"stage", "target"})

StageOrder == <<"QUEUED", "INGESTION", "PLANNER", "TEXT_AGENTS", "VISUAL",
                "CHART", "SHORTS", "REVIEW", "DONE">>

StageIndex(s) == CHOOSE i \in 1..Len(StageOrder) : StageOrder[i] = s

\* C7: within one run current_stage only moves to the next name of QUEUED,
\* INGESTION, PLANNER, TEXT_AGENTS, VISUAL, CHART, SHORTS, REVIEW, DONE, or
\* straight to DONE when the run is cancelled or fails fatally; it goes back
\* (to QUEUED) only in retry_job.  Every persisted (current_stage, progress)
\* pair is one of the nine pairs of the table.
C7_StageOrder ==
  /\ [](\A id \in Created :
          /\ jobs[id].current_stage \in Range(StageOrder)
          /\ <<jobs[id].current_stage, jobs[id].progress>> \in
               {<<"QUEUED", 0>>, <<"INGESTION", 5>>, <<"PLANNER", 20>>,
                <<"TEXT_AGENTS", 40>>, <<"VISUAL", 60>>, <<"CHART", 72>>,
                <<"SHORTS", 82>>, <<"REVIEW", 92>>, <<"DONE", 100>>})
  /\ [][\A id \in Created :
          (jobs'[id].current_stage # jobs[id].current_stage /\ ~RetryStep)
            => \/ StageIndex(jobs'[id].current_stage)
                    = StageIndex(jobs[id].current_stage) + 1
               \/ /\ jobs'[id].current_stage = "DONE"
                  /\ jobs'[id].status \in {"CANCELED", "FAILED"}]_vars

\* the run shows stage CHART although the job has no chart target
C7_Witness ==
  \E id \in Created :
    /\ jobs[id].current_stage = "CHART"
    /\ ~Contains(hist[id].eff, "chart")
    /\ jobs[id].status = "RUNNING"

\* the run of job id is over: it reached a terminal status, or the reviewer
\* raised and took the worker thread with it
RunOver(id) ==
  \/ jobs[id].status \in TERMINAL
  \/ jobs[id].status = "RUNNING" /\ cur = id /\ pc = "dead"

\* C8: the reviewer is called at most once per run; a run that is over and
\* in which neither INGESTION nor PLANNER raised and no checkpoint observed
\* a cancellation has called it exactly once, whatever the soft stages
\* recorded; a job that ended SUCCEEDED or PARTIAL_SUCCESS has its
\* review-report.md written in that run.
C8_ReviewAlwaysRuns ==
  \A id \in Created :
    /\ hist[id].reviews <= 1
    /\ LatestRun(id) =>
         /\ (RunOver(id) /\ hist[id].raised \cap HARD = {} /\ ~hist[id].observed)
              => (hist[id].reviews = 1 /\ "REVIEW" \in hist[id].invoked)
         /\ (jobs[id].status \in {"SUCCEEDED", "PARTIAL_SUCCESS"})
              => /\ hist[id].reviews = 1
                 /\ hist[id].report
                 /\ exists(disk[id], "review-report.md")

\* a run with failures in two soft stages that was reviewed all the same
C8_Witness ==
  \E id \in Created :
    /\ {"VISUAL", "CHART"} \subseteq hist[id].raised
    /\ hist[id].reviews = 1
    /\ hist[id].report
    /\ jobs[id].status = "PARTIAL_SUCCESS"

\* the text targets of the run recorded for job id
TextTargets(id) == Range(selected_targets(hist[id].eff))

\* entry e of an error message names text target t: the entry of the failed
\* target itself ("<t>: ..."), or a reviewer entry about the file of t, whose
\* path contains the name of t
Mentions(e, t) ==
  \/ e = <<"target", t>>
  \/ e[1] \notin {"stage", "target"} /\ e[2] = TextPath(t)

Count(msg, P(_)) == Len(SelectSeq(msg, P))

\* exactly one text target, t, raised in the finalized run of job id and the
\* job has other text targets, all of which succeeded
OneTextFailure(id, t) ==
  /\ jobs[id].status \in {"SUCCEEDED", "PARTIAL_SUCCESS"}
  /\ hist[id].raised \cap (TEXT_TARGETS \cup {"TEXT_AGENTS"}) = {t}
  /\ t \in TextTargets(id)
  /\ TextTargets(id) # {t}

\* C9 as stated: if one text target raises while the others succeed, the job
\* ends PARTIAL_SUCCESS, the files of the succeeding targets exist, and the
\* failing target's name occurs exactly once in error_message, the
\* reviewer's entries included.
C9_NameExactlyOnce ==
  \A id \in Created : \A t \in TEXT_TARGETS :
    OneTextFailure(id, t) =>
      /\ jobs[id].status = "PARTIAL_SUCCESS"
      /\ \A u \in TextTargets(id) \ {t} : exists(disk[id], TextPath(u))
      /\ Count(jobs[id].error_message, LAMBDA e : Mentions(e, t)) = 1

\* C9 as amended: under the same condition the job ends PARTIAL_SUCCESS, the
\* files of the succeeding targets exist, error_message holds exactly one
\* failure entry of the target itself, and the reviewer adds one more entry
\* naming the target, a missing-artifact entry for its required file,
\* exactly when that file is absent at review time.
C9_StageEntryOnce ==
  \A id \in Created : \A t \in TEXT_TARGETS :
    OneTextFailure(id, t) =>
      /\ jobs[id].status = "PARTIAL_SUCCESS"
      /\ \A u \in TextTargets(id) \ {t} : exists(disk[id], TextPath(u))
      /\ Count(jobs[id].error_message, LAMBDA e : e = <<"target", t>>) = 1
      /\ Count(jobs[id].error_message, LAMBDA e : e = <<"missing", TextPath(t)>>)
           = IF exists(disk[id], TextPath(t)) THEN 0 ELSE 1
      /\ Count(jobs[id].error_message, LAMBDA e : Mentions(e, t))
           = IF exists(disk[id], TextPath(t)) THEN 1 ELSE 2

\* blog raised and left no file while threads succeeded
C9_Witness ==
  \E id \in Created :
    /\ OneTextFailure(id, "blog")
    /\ exists(disk[id], "threads/thread-01.md")
    /\ ~exists(disk[id], "blog.md")
    /\ jobs[id].error_message = << <<"target", "blog">>, <<"missing", "blog.md">> >>

\* C10: retry_job goes through only when the stored status is FAILED or
\* PARTIAL_SUCCESS; for SUCCEEDED, RUNNING, PENDING or CANCELED it answers
\* with an error, changes no field of any record and enqueues nothing.
C10_RetryOnlyFromFailed ==
  [][(RetryStep /\ resp'.id \in Created) =>
       LET st == jobs[resp'.id].status IN
       /\ (resp'.code = 200) => (st \in {"FAILED", "PARTIAL_SUCCESS"})
       /\ (st \in {"SUCCEEDED", "RUNNING", "PENDING", "CANCELED"})
            => (resp'.code = 400 /\ jobs' = jobs /\ queue' = queue)
       /\ (jobs' # jobs \/ queue' # queue) => resp'.code = 200]_vars

\* a retry of a cancelled job that was answered with an error
C10_Witness ==
  /\ resp.op = "retry"
  /\ resp.code = 400
  /\ resp.id \in Created
  /\ resp.status = "CANCELED"
  /\ jobs[resp.id].status = "CANCELED"
  /\ jobs[resp.id].retry_count = 0

\* the step is a call of cancel_job
CancelStep == resp'.tick # resp.tick /\ resp'.op = "cancel"

\* C11: retry_count is 0 or 1 in every reachable state; it changes only in a
\* retry_job call that goes through, which takes it from 0 to 1, so a job is
\* retried at most once; a retry_job call on a job whose retry_count is
\* already 1 is answered with an error, changes no record and enqueues
\* nothing.
C11_RetryAtMostOnce ==
  /\ [](\A id \in Created : jobs[id].retry_count \in {0, 1})
  /\ [][\A id \in Created :
          (jobs'[id].retry_count # jobs[id].retry_count)
            => (/\ RetryStep /\ resp'.id = id /\ resp'.code = 200
                /\ jobs[id].retry_count = 0
                /\ jobs'[id].retry_count = 1)]_vars
  /\ [][(RetryStep /\ resp'.id \in Created /\ jobs[resp'.id].retry_count = 1)
          => (resp'.code = 400 /\ jobs' = jobs /\ queue' = queue)]_vars

\* a second retry of a job that failed again in its retried run
C11_Witness ==
  /\ resp.op = "retry"
  /\ resp.code = 400
  /\ resp.id \in Created
  /\ jobs[resp.id].status = "FAILED"
  /\ jobs[resp.id].retry_count = 1
  /\ queue = <<>>

\* C12: a retry_job call that goes through leaves the record with status
\* PENDING, current_stage QUEUED, progress 0, an empty error_message,
\* started_at and finished_at unset, cancel_requested false and retry_count
\* one higher; source, targets, tone, language, mock_mode and created_at
\* keep their values, no other record changes, and the job id is appended
\* to the queue once.
C12_RetryResetsRun ==
  [][(RetryStep /\ resp'.code = 200) =>
       LET id == resp'.id IN
       /\ id \in Created
       /\ jobs' = [jobs EXCEPT ![id].status           = "PENDING",
                               ![id].current_stage    = "QUEUED",
                               ![id].progress         = 0,
                               ![id].error_message    = <<>>,
                               ![id].started_at       = FALSE,
                               ![id].finished_at      = FALSE,
                               ![id].cancel_requested = FALSE,
                               ![id].retry_count      = jobs[id].retry_count + 1]
       /\ queue' = Append(queue, id)
       /\ disk' = disk]_vars

\* the state a retry that went through leaves behind: the record is reset,
\* the id is queued, and the report of the earlier run is still on disk
C12_Witness ==
  /\ resp.op = "retry"
  /\ resp.code = 200
  /\ resp.id \in Created
  /\ jobs[resp.id].status = "PENDING"
  /\ jobs[resp.id].current_stage = "QUEUED"
  /\ jobs[resp.id].retry_count = 1
  /\ ~jobs[resp.id].cancel_requested
  /\ jobs[resp.id].created_at
  /\ queue = <<resp.id>>
  /\ exists(disk[resp.id], "review-report.md")

\* C13: cancel_job on a job whose stored status is SUCCEEDED, FAILED,
\* PARTIAL_SUCCESS or CANCELED answers with that status and changes no
\* field of any record; on a PENDING or RUNNING job it changes nothing but
\* cancel_requested, which it sets, so a repeated call leaves the record as
\* the first call left it.  cancel_job never touches the queue.
C13_CancelNoopWhenTerminal ==
  [][(CancelStep /\ resp'.id \in Created) =>
       LET id == resp'.id IN
       /\ (jobs[id].status \in {"SUCCEEDED", "FAILED", "PARTIAL_SUCCESS", "CANCELED"})
            => (jobs' = jobs /\ resp'.status = jobs[id].status)
       /\ (jobs[id].status \in {"PENDING", "RUNNING"})
            => jobs' = [jobs EXCEPT ![id].cancel_requested = TRUE]
       /\ (jobs[id].status \in {"PENDING", "RUNNING"} /\ jobs[id].cancel_requested)
            => jobs' = jobs
       /\ queue' = queue]_vars

\* cancel_job on a job that succeeded: answered SUCCEEDED, flag not set
C13_Witness ==
  /\ resp.op = "cancel"
  /\ resp.id \in Created
  /\ resp.status = "SUCCEEDED"
  /\ jobs[resp.id].status = "SUCCEEDED"
  /\ ~jobs[resp.id].cancel_requested

\* the worker's local variables are those of the run recorded for job id,
\* and ingestion has returned in that run
Ingested(id) ==
  /\ LatestRun(id)
  /\ cur = id
  /\ pc \notin {"start", "get"}
  /\ "INGESTION" \in hist[id].invoked \ hist[id].raised

\* a failure entry that is about the shorts videos
AboutShorts(e) == e[2] \in {"SHORTS", "shorts-videos", "shorts-videos/shorts-01.mp4"}

\* C19: when shorts-videos is requested, ingestion yields no source video
\* and mock_mode is off, the effective target list of the rest of the run
\* is the requested list without shorts-videos, the warnings hold exactly
\* one skip warning, the SHORTS generator is not invoked, and neither the
\* accumulated failures nor the final error_message hold an entry about the
\* shorts videos (the reviewer requires none).  In mock mode, or when a
\* source video exists, the effective list keeps shorts-videos, there is no
\* skip warning and the SHORTS generator is invoked once the run gets there.
C19_ShortsSkippedWithoutVideo ==
  \A id \in Created :
    (Ingested(id) /\ Contains(jobs[id].targets, "shorts-videos")) =>
      IF ~video /\ ~jobs[id].mock_mode
        THEN /\ eff = SelectSeq(jobs[id].targets, LAMBDA t : t # "shorts-videos")
             /\ hist[id].eff = eff
             /\ Count(warnings, LAMBDA w : w = "shorts-skipped") = 1
             /\ "SHORTS" \notin hist[id].invoked
             /\ Count(failures, AboutShorts) = 0
             /\ Count(jobs[id].error_message, AboutShorts) = 0
             /\ Count(_required_paths_for_targets(eff),
                      LAMBDA q : q = "shorts-videos/shorts-01.mp4") = 0
        ELSE /\ eff = jobs[id].targets
             /\ hist[id].eff = eff
             /\ Count(warnings, LAMBDA w : w = "shorts-skipped") = 0
             /\ ("REVIEW" \in hist[id].checked) => ("SHORTS" \in hist[id].invoked)

\* a job that asked for shorts videos of a source without video, outside
\* mock mode, and ended SUCCEEDED after its review
C19_Witness ==
  \E id \in Created :
    /\ Ingested(id)
    /\ Contains(jobs[id].targets, "shorts-videos")
    /\ ~video /\ ~jobs[id].mock_mode
    /\ warnings = <<"shorts-skipped">>
    /\ hist[id].reviews = 1
    /\ jobs[id].status = "SUCCEEDED"

----------------------------------------------------------------------------
(* Target normalisation by itself: a target list goes through              *)
(* _normalize_targets, through validate_targets, and its normalised form   *)
(* through _normalize_targets once more.                                   *)

\* the target lists of at most MaxTargets entries
RawLists == UNION {[1..n -> RawTargets] : n \in 0..MaxTargets}

NormInit ==
  /\ Idle
  /\ Unused("norm")
  /\ norm \in {[NoNorm EXCEPT !.input = l, !.step = "new"] : l \in RawLists}

Normalize ==
  /\ norm.step = "new"
  /\ norm' = [norm EXCEPT !.out = _normalize_targets(norm.input),
                          !.step = "normalized"]
  /\ UNCHANGED <<queue, workers, jq, qlog, pipeline_vars>>

Validate ==
  /\ norm.step = "normalized"
  /\ norm' = [norm EXCEPT !.rejected = targets_rejected(norm.input),
                          !.val = IF targets_rejected(norm.input) THEN <<>>
                                  ELSE validate_targets(norm.input),
                          !.step = "validated"]
  /\ UNCHANGED <<queue, workers, jq, qlog, pipeline_vars>>

Renormalize ==
  /\ norm.step = "validated"
  /\ norm' = [norm EXCEPT !.again = _normalize_targets(norm.out),
                          !.step = "done"]
  /\ UNCHANGED <<queue, workers, jq, qlog, pipeline_vars>>

NormNext == Normalize \/ Validate \/ Renormalize

NormSpec == NormInit /\ [][NormNext]_vars

\* the step is one of the worker inside or around process_job
WorkerStep == pc' # pc

\* C21: a worker step taken while the record of the current job id does
\* not exist writes nothing to the job store; process_job started for an
\* id without record returns from its first lookup, so no checkpoint is
\* passed and no generator invoked; a run whose record disappears stops at
\* its next checkpoint without any further bookkeeping; and a record that
\* is gone never comes back.
C21_MissingRecordAborts ==
  /\ [][(WorkerStep /\ cur \notin DOMAIN jobs) => (jobs' = jobs)]_vars
  /\ [][(WorkerStep /\ pc = "get" /\ cur \notin DOMAIN jobs)
          => (pc' = "idle" /\ hist' = hist /\ disk' = disk)]_vars
  /\ [][(WorkerStep /\ pc = "chk" /\ cur \notin DOMAIN jobs)
          => (pc' = "idle" /\ hist' = hist /\ disk' = disk)]_vars
  /\ [][\A id \in DOMAIN hist :
          (id \notin DOMAIN jobs) => (id \notin DOMAIN jobs')]_vars
  /\ [](\A id \in DOMAIN hist :
          (id \notin DOMAIN jobs /\ cur = id /\ pc \in {"get", "idle"}
           /\ hist[id].checked = {})
            => hist[id].invoked = {})

\* the record was deleted while the text stage ran; the run stopped at the
\* checkpoint before VISUAL
C21_Witness ==
  /\ cur \in DOMAIN hist
  /\ cur \notin DOMAIN jobs
  /\ pc = "idle"
  /\ "TEXT_AGENTS" \in hist[cur].invoked
  /\ "VISUAL" \notin hist[cur].checked

\* no entry occurs twice in list
NoRepeat(list) == \A i, j \in 1..Len(list) : (list[i] = list[j]) => (i = j)

\* C27: the failure list of a run that is being finalized, and the
\* error_message of every job, contain no entry twice.
C27_NoRepeatedEntry ==
  /\ (pc = "final") => NoRepeat(failures)
  /\ \A id \in Created : NoRepeat(jobs[id].error_message)

----------------------------------------------------------------------------
(* Properties of the application under retry_job calls side by side *)

\* how often retry_job calls have enqueued id
Requeued(id) == Cardinality({i \in 1..Len(reqs.puts) : reqs.puts[i] = id})

\* a retry_job call for id has committed and not yet enqueued
BetweenCommitAndEnqueue(id) ==
  \E r \in DOMAIN reqs.calls :
    reqs.calls[r].id = id /\ reqs.calls[r].at = "enqueue"

\* C29: for every job the number of times its id has been enqueued (once by
\* create_job, once by every accepted retry_job) never exceeds
\* 1 + retry_count, equals it whenever no retry_job call stands between its
\* commit and its enqueue, and never exceeds 2, also with retry_job calls
\* running side by side.
C29_EnqueuedOncePerRun ==
  \A id \in Created :
    /\ 1 + Requeued(id) <= 1 + jobs[id].retry_count
    /\ ~BetweenCommitAndEnqueue(id)
         => (1 + Requeued(id) = 1 + jobs[id].retry_count)
    /\ 1 + Requeued(id) <= 2

\* the step is the write of an accepted retry_job call for id
RetryWrites(id) ==
  \/ RetryStep /\ resp'.id = id /\ resp'.code = 200 /\ reqs' = reqs
  \/ \E r \in DOMAIN reqs.calls :
       /\ reqs.calls[r].id = id
       /\ reqs.calls[r].at = "commit" /\ reqs'.calls[r].at = "enqueue"

\* C30: a job that is SUCCEEDED or CANCELED keeps its status for ever; a job
\* that is FAILED or PARTIAL_SUCCESS changes its status only to PENDING and
\* only by the write of an accepted retry_job call; no step takes a job from
\* a terminal status to RUNNING.
C30_TerminalStable ==
  /\ [][\A id \in Created :
          (jobs[id].status \in {"SUCCEEDED", "CANCELED"})
            => (jobs'[id].status = jobs[id].status)]_vars
  /\ [][\A id \in Created :
          (jobs[id].status \in RETRYABLE /\ jobs'[id].status # jobs[id].status)
            => (jobs'[id].status = "PENDING" /\ RetryWrites(id))]_vars
  /\ [][\A id \in Created :
          (jobs[id].status \in TERMINAL) => (jobs'[id].status # "RUNNING")]_vars

----------------------------------------------------------------------------
(* Properties of the reviewer *)

\* the call of _run_reviewer has returned
Reviewed == rev.step \in {"reviewed", "done"}

Requested(t) == Contains(rev.targets, t)

\* the entries of the returned review_failures of one kind
EntriesOf(kind) == {e \in Range(rev.failures) : e.kind = kind}

\* the thumbnail under review is an image of another size than 1280x720
ThumbnailOff ==
  /\ Requested("thumbnail")
  /\ rev.dir.thumb.there /\ rev.dir.thumb.ok
  /\ rev.dir.thumb.size # EXPECTED_SIZE

\* the charts directory under review holds fewer than 2 PNG files
ChartsFew ==
  Requested("chart") /\ rev.dir.charts /\ Len(chart_files(rev.dir)) < 2

\* the chart files under review that are images of another size
ChartsOff ==
  IF Requested("chart") /\ rev.dir.charts
    THEN {n \in Range(chart_files(rev.dir)) :
            rev.dir.chart[n].size # EXPECTED_SIZE}
    ELSE {}

\* the slide count under review is outside 5..7
SlidesOff == Requested("card-news") /\ rev.dir.slides \notin 5..7

\* what the claim's three other sentences say, as the code does it
ChartAndSlideFailures ==
  /\ ChartsFew
       <=> (\E e \in EntriesOf("count mismatch") :
              e.name = "charts" /\ e.count = <<Len(chart_files(rev.dir))>>)
  /\ {e.name : e \in EntriesOf("resolution mismatch")} \ {"thumbnail"} = ChartsOff
  /\ \A e \in EntriesOf("slide count mismatch") :
       SlidesOff /\ e.count = <<rev.dir.slides>>

ClipsReached ==
  /\ Requested("shorts-videos") /\ rev.dir.shorts
  /\ ~review_raises([rev.dir EXCEPT !.clips = <<>>], rev.targets)

\* ffprobe cannot be run on clip i, or fails on it
Unprobed(i) == ~rev.dir.ffprobe \/ rev.dir.clips[i].rc # 0

\* clip i is not taller than wide, narrower than 720, or longer than 60.5 s
ClipOff(i) ==
  LET clip == rev.dir.clips[i]
  IN \/ clip.height <= clip.width
     \/ clip.width < 720
     \/ clip.duration > 605

\* C23: once the reviewer has been called on the clips of a retained
\* shorts-videos target it returns; a clip that ffprobe cannot be run on,
\* or fails on, gets a WARN line and no failure entry; every other clip
\* gets a failure entry naming it exactly when it is not taller than wide,
\* narrower than 720 or longer than 60.5 seconds; a review without failure
\* entry leaves the run SUCCEEDED.
C23_UnprobedClipOnlyWarns ==
  (ClipsReached /\ rev.step # "new") =>
    /\ Reviewed
    /\ \A i \in 1..Len(rev.dir.clips) :
         LET named == {e \in Range(rev.failures) : e.name = ClipName(i)}
         IN IF Unprobed(i)
              THEN /\ named = {}
                   /\ \E ln \in Range(rev.report) :
                        ln.level = "WARN" /\ ln.name = ClipName(i)
              ELSE (named # {}) <=> ClipOff(i)
    /\ (rev.step = "done" /\ rev.failures = <<>>) => (rev.status = "SUCCEEDED")

----------------------------------------------------------------------------
(* Properties of the image providers *)

\* the step ends the work on one image
ImageStep == prov'.idx = prov.idx + 1 /\ prov.at \in {"image", "post", "get"}

\* the image the step works on
Current == prov.images[prov.idx]

\* the step ends an image with a failed request
FailedStep == ImageStep /\ prov'.ended = "raised"

\* how often path occurs in list
Occurrences(list, path) == Cardinality({i \in 1..Len(list) : list[i] = path})

\* C24: a call of the image provider's generate_assets returns the path of
\* every requested slide and of the thumbnail, whatever the requests do: a
\* failed request leaves a locally drawn placeholder at the image's path,
\* adds exactly one warning for that image and still appends the path; a
\* call without card news creates neither the card-news directory nor a
\* slide.
C24_ImageProviderNeverRaises ==
  /\ [][(prov.svc = "visual" /\ FailedStep)
          => /\ prov'.files = [prov.files EXCEPT ![Current] = "fallback"]
             /\ prov'.warnings = Append(prov.warnings, Current)
             /\ prov'.paths = Append(prov.paths, Current)
             /\ prov'.at \in {"image", "done"}]_vars
  /\ [][(prov.svc = "visual" /\ ImageStep /\ ~FailedStep)
          => /\ prov'.files[Current] \in {"mock", "remote"}
             /\ prov'.warnings = prov.warnings
             /\ prov'.paths = Append(prov.paths, Current)]_vars
  /\ []((prov.svc = "visual" /\ prov.at = "done")
          => /\ prov.paths = images_of("visual", prov.cards, prov.thumb,
                                       prov.messages)
             /\ \A i \in 1..Len(prov.paths) :
                  /\ prov.files[prov.paths[i]] # "none"
                  /\ Occurrences(prov.warnings, prov.paths[i])
                       = (IF prov.files[prov.paths[i]] = "fallback" THEN 1 ELSE 0)
             /\ Len(prov.paths) = (IF prov.cards THEN prov.slide_count ELSE 0)
                                  + (IF prov.thumb THEN 1 ELSE 0)
             /\ prov.cards => prov.slide_count \in 5..7)
  /\ []((prov.svc = "visual" /\ ~prov.cards)
          => /\ "visuals/card-news" \notin prov.dirs
             /\ \A i \in 1..7 : prov.files[SlidePaths[i]] = "none")

\* a returned call for card news and thumbnail in which a request failed for
\* the thumbnail after three answers and another request gave an image
C24_Witness ==
  /\ prov.svc = "visual" /\ prov.at = "done" /\ prov.cards /\ prov.thumb
  /\ prov.files["visuals/thumbnail.png"] = "fallback"
  /\ prov.posts = 3 /\ prov.ended = "raised"
  /\ prov.files["visuals/card-news/slide-01.png"] = "remote"
  /\ Len(prov.paths) = 8

\* C25: a call of the chart provider's generate_assets returns exactly
\* charts/overview.png and charts/trend.png, in mock mode and with
\* succeeding or failing requests; a failed request adds exactly one warning
\* and a locally drawn chart; mock mode makes no request.
C25_AlwaysTwoCharts ==
  /\ []((prov.svc = "chart" /\ prov.at = "done")
          => /\ prov.paths = <<"charts/overview.png", "charts/trend.png">>
             /\ \A i \in 1..2 :
                  /\ prov.files[prov.paths[i]] # "none"
                  /\ Occurrences(prov.warnings, prov.paths[i])
                       = (IF prov.files[prov.paths[i]] = "fallback" THEN 1 ELSE 0)
             /\ Len(prov.warnings) <= 2)
  /\ [][(prov.svc = "chart" /\ FailedStep)
          => /\ prov'.files = [prov.files EXCEPT ![Current] = "fallback"]
             /\ prov'.warnings = Append(prov.warnings, Current)
             /\ prov'.paths = Append(prov.paths, Current)]_vars
  /\ [][(prov.svc = "chart" /\ ImageStep /\ ~FailedStep)
          => /\ prov'.files[Current] = (IF prov.mock THEN "mock" ELSE "remote")
             /\ prov'.warnings = prov.warnings]_vars
  /\ []((prov.svc = "chart" /\ prov.mock)
          => /\ prov.posts = 0 /\ prov.at \notin {"post", "get"}
             /\ prov.warnings = <<>>)

\* a returned chart call whose first request failed and whose second gave an
\* image
C25_Witness ==
  /\ prov.svc = "chart" /\ prov.at = "done" /\ ~prov.mock
  /\ prov.files["charts/overview.png"] = "fallback"
  /\ prov.files["charts/trend.png"] = "remote"
  /\ prov.warnings = <<"charts/overview.png">>
  /\ prov.paths = <<"charts/overview.png", "charts/trend.png">>

\* the step is a POST of the loop with retries
LoopPost == prov.at = "post" /\ loops(prov) /\ prov'.posts = prov.posts + 1

\* the step leaves the remote request
Leaves == prov'.at \in {"image", "done"} /\ prov'.idx = prov.idx + 1

\* C26: one remote image request makes at most 3 HTTP requests.  The loop
\* of the Gemini image request and of the chart request posts again only
\* after a 429/500/502/503/504 answer or a transport error, returns at the
\* first 2xx answer that carries an image, raises at once on any other
\* error status, and raises after the third failed POST; every request
\* ends, and a request that raised leaves a placeholder and a warning while
\* generate_assets goes on and returns.
C26_BoundedRetries ==
  /\ [](prov.posts <= attempts /\ prov.attempt < attempts)
  /\ [][(LoopPost /\ ~Leaves)
          => /\ prov'.last \in RETRY_STATUS \cup {"transport"}
             /\ prov'.attempt = prov.attempt + 1
             /\ prov'.at = "post"]_vars
  /\ [][(LoopPost /\ prov'.last = "image")
          => (Leaves /\ prov'.ended = "returned")]_vars
  /\ [][(LoopPost /\ prov'.last \notin RETRY_STATUS \cup {"transport", "image"})
          => (Leaves /\ prov'.ended = "raised")]_vars
  /\ [][(LoopPost /\ prov'.posts = attempts)
          => (Leaves /\ prov'.ended
                          = (IF prov'.last = "image" THEN "returned" ELSE "raised"))]_vars
  /\ [][(LoopPost /\ prov'.posts < attempts
         /\ prov'.last \in RETRY_STATUS \cup {"transport"})
          => ~Leaves]_vars
  /\ [][(~loops(prov) /\ prov.at \in {"post", "get"})
          => (prov'.posts = prov.posts + 1 /\ prov'.posts <= 2
              /\ prov'.at # "post")]_vars
  /\ [][FailedStep
          => /\ prov'.files[Current] = "fallback"
             /\ Occurrences(prov'.warnings, Current) = 1]_vars
  /\ (prov.at \in {"post", "get"}) ~> (prov.at \in {"image", "done"})
  /\ <>(prov.at = "done")

\* the request of the last image has raised after three failed POSTs, the last
\* answered with 503, and the call has returned
C26_Witness ==
  /\ prov.at = "done" /\ loops(prov) /\ ~prov.mock /\ prov.api # "unset"
  /\ prov.posts = 3 /\ prov.attempt = 2 /\ prov.last = "503"
  /\ prov.ended = "raised"
  /\ prov.files[prov.images[Len(prov.images)]] = "fallback"

----------------------------------------------------------------------------
(* Properties of download_artifact *)

\* the directory of the job the request names
OwnDir == OutputRoot \o <<art.job>>

\* path lies inside directory dir
Inside(dir, path) == Len(path) > Len(dir) /\ Take(path, Len(dir)) = dir

\* what the request's path resolves to
Resolved == resolve(OwnDir, art.absolute, art.path)

\* C28: an answered download serves a file only if the request's path
\* resolves to an existing file inside the directory of the job the request
\* names and the file's extension is an allowed one; a request whose path
\* resolves outside that directory is answered 400 or 404 and serves no
\* file; a file of the job with an allowed extension is served.
C28_NoPathTraversal ==
  (art.step = "answered") =>
    /\ art.code \in {200, 400, 404}
    /\ (art.code = 200)
         => /\ art.served = Resolved
            /\ art.served \in RegularFiles
            /\ Inside(OwnDir, art.served)
            /\ art.job \in Records
            /\ suffix_lower(art.served[Len(art.served)]) \in ALLOWED_EXTENSIONS
    /\ (art.code # 200) => (art.served = <<>>)
    /\ ~Inside(OwnDir, Resolved) => (art.code \in {400, 404})
    /\ (/\ art.job \in Records /\ Resolved \in RegularFiles
        /\ Inside(OwnDir, Resolved)
        /\ suffix_lower(Resolved[Len(Resolved)]) \in ALLOWED_EXTENSIONS)
         => (art.code = 200)

\* a request that climbs out of its job's directory into the directory of
\* another job has been refused
C28_Witness ==
  /\ art.step = "answered" /\ art.job = "j1" /\ ~art.absolute
  /\ art.path = <<"..", "j2", "blog.md">>
  /\ art.code = 400 /\ art.served = <<>>

----------------------------------------------------------------------------
(* Properties of the JobQueue *)

Threads == 1..Len(workers)

Alive(t) == workers[t].state \in {"check", "wait", "call"}

\* the step is a call of start / of stop
StartStep == qlog'.tick # qlog.tick /\ qlog'.op = "start"

StopStep == qlog'.tick # qlog.tick /\ qlog'.op = "stop"

\* C14: at every moment at most one thread is inside the processor, and at
\* most one thread running _run is alive, whatever start, stop and enqueue
\* calls were made.
C14_OneProcessorAtATime ==
  /\ Cardinality({t \in Threads : workers[t].state = "call"}) <= 1
  /\ Cardinality({t \in Threads : Alive(t)}) <= 1

\* the second worker, started after the first one had ended, is inside the
\* processor while ids wait and start has just been called again
C14_Witness ==
  /\ Len(workers) = 2
  /\ workers[2].state = "call"
  /\ queue # <<>>
  /\ qlog.op = "start"

\* C15: the ids handed to the processor followed by the ids still waiting
\* are the ids enqueued, in the order of the enqueue calls: none is dropped,
\* reordered or merged with an equal one.  An id is handed over exactly in
\* the step in which a waiting thread takes the oldest id and enters the
\* processor, so an id enqueued twice starts two processor calls.
C15_FifoNoDedup ==
  /\ [](qlog.enqueued = qlog.handed \o queue)
  /\ [][(qlog'.handed # qlog.handed) =>
          /\ queue # <<>>
          /\ qlog'.handed = Append(qlog.handed, Head(queue))
          /\ queue' = Tail(queue)
          /\ \E t \in Threads :
               /\ workers[t].state = "wait"
               /\ workers'[t].state = "call"
               /\ workers'[t].item = Head(queue)]_vars
  /\ [][\A t \in Threads :
          (workers[t].state # "call" /\ workers'[t].state = "call")
            => Len(qlog'.handed) = Len(qlog.handed) + 1]_vars

\* id 1 was enqueued before and after id 2 and handed over twice
C15_Witness == qlog.handed = <<1, 2, 1>>

\* C16 as stated: a processor call that raises leaves its worker alive: no
\* thread running _run is ever ended by an exception.
C16_WorkerSurvivesException ==
  \A t \in Threads : workers[t].state # "crashed"

\* C17: a start call made while the worker is alive changes nothing: no
\* thread is created, and the worker, the processor and the stop signal of
\* the JobQueue stay as they were, a set stop signal included; at most one
\* thread running _run is alive at any time.
C17_StartIdempotent ==
  /\ [][(StartStep /\ jq._worker # 0 /\ Alive(jq._worker))
          => (workers' = workers /\ jq' = jq /\ queue' = queue)]_vars
  /\ [][(Len(workers') # Len(workers))
          => (/\ StartStep
              /\ \A t \in Threads : ~Alive(t)
              /\ Len(workers') = Len(workers) + 1
              /\ jq'._worker = Len(workers'))]_vars
  /\ [](Cardinality({t \in Threads : Alive(t)}) <= 1)

\* start was called with another processor while the worker, already told
\* to stop, was inside a processor call: nothing changed
C17_Witness ==
  /\ qlog.op = "start"
  /\ qlog.proc = "other"
  /\ jq._processor = "process_job"
  /\ jq._stop_event
  /\ Len(workers) = 1
  /\ workers[1].state = "call"

----------------------------------------------------------------------------
(* Properties of the target normalisation *)

LegacyAliases == {"visuals", "visual-card-news", "visual-thumbnail", "charts"}

\* what an allowed target stands for
StandsFor(t) ==
  CASE t = "visuals"          -> <<"card-news", "thumbnail">>
    [] t = "visual-card-news" -> <<"card-news">>
    [] t = "visual-thumbnail" -> <<"thumbnail">>
    [] t = "charts"           -> <<"chart">>
    [] OTHER                  -> <<t>>

AllowedList(l) == \A i \in 1..Len(l) : l[i] \in ALLOWED_TARGETS

FirstIndex(l, x) == CHOOSE i \in 1..Len(l) : l[i] = x /\ \A j \in 1..(i - 1) : l[j] # x

\* out holds the entries of l once each, in the order of their first
\* occurrence in l
FirstOccurrences(out, l) ==
  /\ Range(out) = Range(l)
  /\ \A i, j \in 1..Len(out) : (i # j) => (out[i] # out[j])
  /\ \A i, j \in 1..Len(out) :
       (i < j) => (FirstIndex(l, out[i]) < FirstIndex(l, out[j]))

\* what C20 says of every list but for the comparison of the two functions:
\* the normalised list holds no legacy alias and no duplicate, it holds
\* what the entries of an allowed list stand for in first-occurrence order,
\* and normalising it again gives the same list
NormalForm ==
  /\ Range(norm.out) \cap LegacyAliases = {}
  /\ \A i, j \in 1..Len(norm.out) : (i # j) => (norm.out[i] # norm.out[j])
  /\ AllowedList(norm.input) =>
       FirstOccurrences(norm.out,
         Flatten([i \in 1..Len(norm.input) |-> StandsFor(norm.input[i])]))
  /\ norm.again = norm.out

\* C20 as stated: normalisation gives a list without legacy alias and
\* without duplicate, in first-occurrence order, it is idempotent, and for
\* every list of allowed targets validate_targets returns the list that
\* _normalize_targets returns.
C20_SameForEveryAllowedList ==
  (norm.step = "done") =>
    /\ NormalForm
    /\ AllowedList(norm.input) => (~norm.rejected /\ norm.val = norm.out)

\* C20 as amended: the same, with the two functions returning the same list
\* for every list of allowed targets that is not empty; for the empty list
\* validate_targets raises and _normalize_targets returns the empty list.
C20_SameForNonEmptyAllowedList ==
  (norm.step = "done") =>
    /\ NormalForm
    /\ (AllowedList(norm.input) /\ norm.input # <<>>)
         => (~norm.rejected /\ norm.val = norm.out)
    /\ (norm.input = <<>>) => (norm.rejected /\ norm.out = <<>>)

\* the list blog, visuals, charts after both functions
C20_Witness ==
  /\ norm.step = "done"
  /\ norm.input = <<"blog", "visuals", "charts">>
  /\ norm.out = <<"blog", "card-news", "thumbnail", "chart">>
  /\ norm.val = norm.out
  /\ ~norm.rejected

----------------------------------------------------------------------------
(* Properties of the whole run and of the text generation *)

\* C31 as stated: every run the worker starts comes to a terminal status:
\* a job whose record says RUNNING is later CANCELED, FAILED,
\* PARTIAL_SUCCESS or SUCCEEDED (or its run is started again by a retry and
\* ends then), whatever the stages did, an exception inside the reviewer's
\* own checks included.
C31_RunReachesTerminal ==
  \A id \in JobIds :
    (id \in Created /\ jobs[id].status = "RUNNING")
      ~> (id \in Created /\ jobs[id].status \in TERMINAL)

\* the fields of a job record the worker writes: process_job lines 36-43
\* and 169-176, the stage updates, _cancel_if_requested and _fail_job
RunFields ==
  {"status", "current_stage", "progress", "error_message", "started_at",
   "finished_at"}

\* the other fields: the inputs of the job, created_at, retry_count and
\* the cancel flag
KeptFields == DOMAIN NewJob(<<>>, FALSE) \ RunFields

\* C32: a step of the worker leaves cancel_requested, retry_count and the
\* inputs (source, targets, tone, language, mock_mode) of every job record
\* as they were: it writes only status, current_stage, progress,
\* error_message, started_at and finished_at.  A cancel flag that is set
\* is taken back by a successful retry_job of that job and by nothing
\* else.
C32_WorkerWritesRunFieldsOnly ==
  /\ [][WorkerStep =>
          \A id \in Created :
            /\ id \in DOMAIN jobs'
            /\ \A f \in KeptFields : jobs'[id][f] = jobs[id][f]]_vars
  /\ [][\A id \in Created :
          (jobs[id].cancel_requested /\ ~jobs'[id].cancel_requested)
            => (RetryStep /\ resp'.id = id /\ resp'.code = 200)]_vars

\* the flag was set while the job was pending or running, the worker wrote
\* the cancelled status afterwards, and the flag is still there
C32_Witness ==
  \E id \in Created :
    /\ jobs[id].status = "CANCELED"
    /\ jobs[id].cancel_requested
    /\ jobs[id].started_at
    /\ jobs[id].finished_at

\* the artifact a target must leave in the output directory
ArtifactsOf(t) ==
  CASE t = "thumbnail"     -> {"visuals/thumbnail.png"}
    [] t = "card-news"     -> {"visuals/card-news/slide-01.png"}
    [] t = "chart"         -> {"charts/overview.png", "charts/trend.png"}
    [] t = "shorts-videos" -> {"shorts-videos/shorts-01.mp4"}
    [] OTHER               -> {TextPath(t)}

\* brief.md and the artifacts of the targets of a list
Required(targets) ==
  {"brief.md"} \cup UNION {ArtifactsOf(t) : t \in Range(targets)}

\* the required artifacts of a list that are not in directory d
Missing(d, targets) == {p \in Required(targets) : ~exists(d, p)}

\* the step is the reviewer returning to process_job
ReviewReturns == pc = "run" /\ stage = 7 /\ pc' = "final"

\* C33: a reviewer call that returns has put one "missing artifact" entry
\* into the failures for every required artifact of the effective target
\* list (brief.md included) that is not in the output directory, and the
\* run is then finalized PARTIAL_SUCCESS; so a job that is SUCCEEDED has
\* brief.md and every required artifact of its effective targets on disk,
\* and a job finalized with one of them missing is PARTIAL_SUCCESS with
\* that entry among its failures.
C33_SucceededHasRequiredArtifacts ==
  /\ [][ReviewReturns =>
          /\ \A p \in Missing(disk[cur], eff) :
                Contains(failures', <<"missing", p>>)
          /\ (Missing(disk[cur], eff) # {}) => (failures' # <<>>)
          /\ disk'[cur] = [disk[cur] EXCEPT !["review-report.md"] = "ok"]]_vars
  /\ [][(pc = "final" /\ pc' # "final" /\ Missing(disk[cur], eff) # {})
          => (jobs'[cur].status = "PARTIAL_SUCCESS")]_vars
  /\ [](\A id \in Created :
          /\ (jobs[id].status = "SUCCEEDED")
               => (Missing(disk[id], hist[id].eff) = {})
          /\ (jobs[id].status \in {"SUCCEEDED", "PARTIAL_SUCCESS"}
              /\ Missing(disk[id], hist[id].eff) # {})
               => /\ jobs[id].status = "PARTIAL_SUCCESS"
                  /\ \A p \in Missing(disk[id], hist[id].eff) :
                       Contains(jobs[id].error_message, <<"missing", p>>))

\* a job whose chart stage raised after writing overview.png: the reviewer
\* found trend.png missing and the job ended PARTIAL_SUCCESS
C33_Witness ==
  \E id \in Created :
    /\ jobs[id].status = "PARTIAL_SUCCESS"
    /\ Contains(hist[id].eff, "chart")
    /\ Missing(disk[id], hist[id].eff) = {"charts/trend.png"}
    /\ Contains(jobs[id].error_message, <<"missing", "charts/trend.png">>)

\* C34 as stated: when a call of start has returned, the worker of the
\* JobQueue is alive and not told to stop, a start that follows a stop
\* whose join timed out on a running processor call included; the ids in
\* the queue are then all taken unless stop is called; and ids are handed
\* to the processor in the order they were enqueued, across a stop and a
\* restart as well.
C34_StartedWorkerServesQueue ==
  /\ [][StartStep =>
          /\ jq'._worker \in 1..Len(workers')
          /\ is_alive(workers'[jq'._worker])
          /\ ~jq'._stop_event]_vars
  /\ (qlog.op = "start" /\ queue # <<>>)
       ~> (queue = <<>> \/ qlog.op = "stop")
  /\ [](qlog.handed = Take(qlog.enqueued, Len(qlog.handed)))

\* the selected targets of the call whose task returned / raised
Succeeded == {text.tasks[k].target : k \in {i \in DOMAIN text.tasks : text.tasks[i].state = "done"}}

Failed == {text.tasks[k].target : k \in {i \in DOMAIN text.tasks : text.tasks[i].state = "raised"}}

\* number of files a text target delivers
Delivers(t) ==
  CASE t = "threads" -> 10 [] t = "shorts-scripts" -> 3 [] OTHER -> 1

\* the files of a set of targets
FilesOf(T) == UNION {{<<t, i>> : i \in 1..Delivers(t)} : t \in T}

\* C35: generate_text_assets runs one task per selected text target and
\* returns only when every task has returned or raised and has been
\* handled, a failure of one task stopping nothing; what it returns is one
\* failure entry per failed target, tagged with the target, and the files
\* of the succeeded targets and no others, each once (1 per newsletter,
\* blog, linkedin and youtube-script, 10 for threads, 3 for
\* shorts-scripts), whatever the order in which the tasks completed; and
\* no two tasks write the same file.
C35_TextFanOutFanIn ==
  /\ [](text.step \in {"running", "returned"} =>
          /\ {text.tasks[k].target : k \in DOMAIN text.tasks}
               = Range(text.targets) \cap TEXT_TARGETS
          /\ Len(text.tasks) = Cardinality(Range(text.targets) \cap TEXT_TARGETS))
  /\ [](text.step = "returned" =>
          /\ \A k \in DOMAIN text.tasks : text.tasks[k].state \in {"done", "raised"}
          /\ Succeeded \cup Failed = Range(text.targets) \cap TEXT_TARGETS
          /\ Range(text.failures) = {<<"target", t>> : t \in Failed}
          /\ Len(text.failures) = Cardinality(Failed)
          /\ Range(text.artifacts) = FilesOf(Succeeded)
          /\ Len(text.artifacts) = Cardinality(FilesOf(Succeeded))
          /\ FilesOf(Succeeded) \subseteq text.files)
  /\ [][\A k \in DOMAIN text.tasks :
          (text'.tasks[k].written # text.tasks[k].written)
            => /\ text'.files \ text.files
                    = {<<text.tasks[k].target, text'.tasks[k].written>>}
               /\ \A j \in DOMAIN text.tasks :
                    (j # k) => (text'.tasks[j] = text.tasks[j])]_vars

\* blog raised first, then shorts-scripts and threads returned: one failure
\* and thirteen files
C35_Witness ==
  /\ text.step = "returned"
  /\ text.targets = <<"blog", "threads", "shorts-scripts">>
  /\ text.tasks[text.finished[1]].target = "blog"
  /\ text.tasks[text.finished[2]].target = "shorts-scripts"
  /\ text.failures = << <<"target", "blog">> >>
  /\ Len(text.artifacts) = 13

\* the provider at position i would give a text: it is available and its
\* generate returns something that is not blank
Usable(i) ==
  /\ single.providers[i].available
  /\ single.providers[i].answer \notin {"raise", "  ", ""}

\* the providers up to position n that are available, in list order
AvailableUpTo(n) ==
  LET sel == SelectSeq(Take(single.providers, n), LAMBDA p : p.available)
  IN [i \in 1..Len(sel) |-> sel[i].name]

\* C36: the providers are consulted in list order; generate is never called
\* on a provider that is not available; the first available provider whose
\* answer is not blank gives the result (its text without the blanks
\* around it) and no later provider is called; a provider that raises or
\* answers blank is passed over; when no provider gives a text the result
\* is the mock text; in mock mode no provider is called and the result is
\* the mock text; the function never raises.
C36_FirstUsableProviderWins ==
  /\ single.step # "raised"
  /\ \A i \in DOMAIN single.calls :
       \E j \in DOMAIN single.providers :
         single.providers[j].name = single.calls[i] /\ single.providers[j].available
  /\ (single.step = "returned") =>
       LET n == Len(single.providers)
           usable == {i \in 1..n : Usable(i)}
           first == CHOOSE i \in usable : \A j \in usable : i <= j
       IN IF single.mock_mode
            THEN single.calls = <<>> /\ single.result = _mock_text
          ELSE IF usable = {}
            THEN single.calls = AvailableUpTo(n) /\ single.result = _mock_text
          ELSE /\ single.calls = AvailableUpTo(first)
               /\ single.result.by = single.providers[first].name
               /\ single.result.text = "text"

\* the first provider raised and the second one, answering with blanks
\* around its text, gave the result
C36_Witness ==
  /\ single.step = "returned"
  /\ ~single.mock_mode
  /\ single.providers[1].available /\ single.providers[1].answer = "raise"
  /\ single.providers[2].answer = " text "
  /\ single.calls = <<"openai", "anthropic">>
  /\ single.result = [by |-> "anthropic", text |-> "text"]

Larger(a, b) == IF a >= b THEN a ELSE b

Smaller(a, b) == IF a <= b THEN a ELSE b

\* the slides in the card-news directory after the call
SlidesWritten == {i \in DOMAIN SlidePaths : prov.files[SlidePaths[i]] # "none"}

\* the card-news directory as the reviewer lists it
CardNewsListing == [NoListing EXCEPT !.slides = Cardinality(SlidesWritten)]

\* C37: a call of generate_assets for card news that has returned, made
\* with n key messages (0 to 5), has written the slides slide-01 to
\* slide-k with k = min(max(n + 2, 5), 7) and no other slide; k lies in
\* 5..7, and the reviewer's slide-count check on that directory reports no
\* failure.
C37_SlideCountInRange ==
  (prov.svc = "visual" /\ prov.cards /\ prov.at = "done") =>
    LET k == Smaller(Larger(prov.messages + 2, 5), 7)
    IN /\ prov.messages \in 0..MaxMessages
       /\ SlidesWritten = 1..k
       /\ k \in 5..7
       /\ \A f \in Range(review_slides(CardNewsListing)) : f.failure = <<>>

\* four key messages gave six slides
C37_Witness ==
  /\ prov.svc = "visual" /\ prov.cards /\ prov.at = "done"
  /\ prov.messages = 4
  /\ SlidesWritten = 1..6

\* the names declared AI_GENERATED in the configurations
Declared ==
  {strip(c.name) : c \in {c \in Range(brief.configs) :
                            c.value_type \in {"AI_GENERATED", " ai_generated "}}}
  \ {""}

\* the heuristic value of a declared variable if it has one, else its
\* default
FallbackValue(n) ==
  LET c == CHOOSE c \in Range(brief.configs) : c.name = n
  IN IF c.resolved \in {"r", " r "} THEN "r" ELSE c.default_value

\* the provider answered with something that holds a JSON object
Parsed == brief.raw \in {"object", "list", "fenced"}

\* C38: _resolve_brief_ai_variables never raises and its result has the
\* declared AI_GENERATED variables as its only keys; the result is exactly
\* the fallback values when mock mode is on, when no provider is available
\* (no provider is called then), when the call raises and when the answer
\* holds no JSON object; after an answer that parses, a variable has the
\* answer's string without the blanks around it if the object holds a
\* non-blank string under its name, and its fallback value otherwise; only
\* the first available provider is asked, and once.
C38_AiVariablesFallBack ==
  /\ brief.step # "raised"
  /\ (brief.asked # 0) =>
       /\ ~brief.mock_mode
       /\ brief.available[brief.asked]
       /\ \A j \in 1..(brief.asked - 1) : ~brief.available[j]
  /\ (brief.step = "returned") =>
       /\ DOMAIN brief.result = Declared
       /\ (brief.mock_mode \/ brief.available = <<FALSE, FALSE>>)
            => (brief.asked = 0)
       /\ (brief.mock_mode \/ brief.available = <<FALSE, FALSE>>
           \/ brief.raw = "raise" \/ ~Parsed)
            => (\A n \in Declared : brief.result[n] = FallbackValue(n))
       /\ (brief.asked # 0 /\ Parsed) =>
            \A n \in Declared :
              brief.result[n] = IF brief.parsed[n] = " ai " THEN "ai"
                                ELSE FallbackValue(n)

\* the provider's answer held a text for summary and blanks for hook:
\* summary took the text, hook kept its fallback, title is no key
C38_Witness ==
  /\ brief.step = "returned"
  /\ brief.asked = 2
  /\ brief.raw = "fenced"
  /\ Len(brief.configs) = 3
  /\ brief.configs[3].name = "title"
  /\ brief.parsed = [n \in {"summary", "hook", "other"} |->
                       IF n = "hook" THEN "  " ELSE " ai "]
  /\ brief.result = [n \in {"summary", "hook"} |->
                       IF n = "summary" THEN "ai" ELSE "r"]

\* C39 as stated: in every state of every job record, finished_at is set
\* exactly when the status is terminal, a RUNNING job has started_at set,
\* and a PENDING job has neither started_at nor finished_at.
C39_TimestampsFollowStatus ==
  \A id \in Created :
    /\ jobs[id].finished_at <=> (jobs[id].status \in TERMINAL)
    /\ (jobs[id].status = "RUNNING") => jobs[id].started_at
    /\ (jobs[id].status = "PENDING")
         => (~jobs[id].started_at /\ ~jobs[id].finished_at)

\* a message in lower case
Lowered(m) == [m EXCEPT !.wording = IF @ = "PLAIN" THEN "plain" ELSE @]

\* where in the text a sentence first stands
PlaceInText(c) ==
  CHOOSE i \in DOMAIN msgs.text :
    msgs.text[i] = c /\ \A j \in 1..(i - 1) : msgs.text[j] # c

\* the score the claim's ranking goes by
Points(c) == _score_candidate(c)

\* the sentences of the text that can give a message: no meta pattern, the
\* first of those equal in lower case
Eligible ==
  {c \in Range(msgs.text) :
     /\ ~c.meta
     /\ \A j \in 1..(PlaceInText(c) - 1) : msgs.text[j].key # c.key}

\* the messages that came out of the scoring, and their sentences
ScoredPart == SubSeq(msgs.picked, 1, msgs.scored)

\* the parts of C40 on ranking and backfill
KeyMessagesRanked ==
  (msgs.step = "returned") =>
    /\ Range(msgs.picked) \subseteq Eligible
    /\ \A i \in DOMAIN msgs.picked : msgs.selected[i].wording
           \in {msgs.picked[i].wording, msgs.picked[i].head}
    /\ \A i \in DOMAIN ScoredPart : Points(ScoredPart[i]) > 0
    /\ \A i, j \in DOMAIN ScoredPart :
         (i < j) =>
           \/ Points(ScoredPart[i]) > Points(ScoredPart[j])
           \/ /\ Points(ScoredPart[i]) = Points(ScoredPart[j])
              /\ PlaceInText(ScoredPart[i]) < PlaceInText(ScoredPart[j])
    /\ \A c \in Eligible :
         (Points(c) > 0 /\ c \notin Range(ScoredPart))
           => /\ msgs.scored = msgs.count
              /\ \A i \in DOMAIN ScoredPart :
                   \/ Points(ScoredPart[i]) > Points(c)
                   \/ /\ Points(ScoredPart[i]) = Points(c)
                      /\ PlaceInText(ScoredPart[i]) < PlaceInText(c)
    /\ IF msgs.scored < (IF msgs.count < 3 THEN msgs.count ELSE 3)
         THEN /\ \A i, j \in (msgs.scored + 1)..Len(msgs.picked) :
                   (i < j) => (PlaceInText(msgs.picked[i])
                                 < PlaceInText(msgs.picked[j]))
              /\ \/ Range(msgs.picked) = Eligible
                 \/ Len(msgs.picked) = msgs.count
         ELSE Len(msgs.picked) = msgs.scored
    /\ (Eligible = {}) <=> (msgs.selected = <<Placeholder>>)

\* C40 as stated: _extract_key_messages returns at least one and at most
\* count messages; none comes from a sentence that matches a meta pattern;
\* no two messages are equal ignoring case; the scored messages stand in
\* falling score order, equal scores in text order, so a sentence with
\* more priority terms stands ahead of an otherwise equal one; with fewer
\* than min(count, 3) scored messages the list is filled up from the
\* remaining sentences without meta pattern; and without any such sentence
\* the result is the one placeholder message.
C40_KeyMessages ==
  (msgs.step = "returned") =>
    /\ msgs.selected # <<>>
    /\ Len(msgs.selected) <= msgs.count
    /\ \A i \in DOMAIN msgs.picked : ~msgs.picked[i].meta
    /\ \A i, j \in DOMAIN msgs.selected :
         (i # j) => (Lowered(msgs.selected[i]) # Lowered(msgs.selected[j]))
    /\ KeyMessagesRanked

====
